---- MODULE Spec2Model ----
(***************************************************************************)
(* Desert terrain / collision core of the GAME repository.                 *)
(*                                                                         *)
(*   CollisionSystem  src/js/environment/particles.js  (lines 247-416)     *)
(*   TerrainSystem    src/unnamed/part_002             (lines 6-212)       *)
(*   SimplexNoise     src/unnamed/part_002             (lines 215-302)     *)
(*                                                                         *)
(* Numbers.  World coordinates, radii and terrain sizes are integers (a    *)
(* subset of the floats the code accepts); every quotient the code forms   *)
(* from them is kept exact, as a fraction or by cross-multiplying.  A      *)
(* JavaScript value that may be undefined or NaN is a record: Val(n) for a *)
(* number, Undefined, NaNv.  Heights are exact fractions Num(n, d), with   *)
(* NaN the fraction 0/0.  The noise generator works in fixed point with    *)
(* FP units per 1.                                                         *)
(***************************************************************************)
EXTENDS Integers, Sequences, FiniteSets, TLC

VARIABLES
    terrainSize,       \* CollisionSystem.terrainSize   (Undefined until init)
    heightData,        \* CollisionSystem.heightData    (Undefined until init)
    collisionObjects,  \* CollisionSystem.collisionObjects
    collisionGrid,     \* CollisionSystem.collisionGrid : key -> bucket
    result,            \* the last call made and what it returned
    addedBeforeInit,   \* history: ids of the obstacles added while terrainSize was unset
    tHeightData,       \* TerrainSystem.heightData      (Undefined until init)
    terrain,           \* TerrainSystem.terrain: the mesh's position array (Undefined until init)
    generated,         \* history: the height grids TerrainSystem.init has produced, each
                       \*          with the Math.random() results its run drew
    noise,             \* the SimplexNoise instances constructed so far
    samples,           \* history: the noise2D calls made and their values
    data,              \* terrain.js: the grid generateTerrainData builds (Undefined before)
    stamps,            \* history: the addDune calls made on data, with the grid
                       \*          before and after each
    meshes,            \* the meshes handed to addCollisionObject, by id: the position
                       \*          each has now and the one it had when it was added
    placed,            \* history: the objects the scatter routines have placed
    assetsLoaded,      \* Engine.assetsLoaded
    totalAssets,       \* Engine.totalAssets
    percent,           \* the percentage updateLoadingProgress showed last
    textureCache,      \* AssetManager.textureCache: the paths it holds
    materialCache,     \* AssetManager.materialCache: the keys it holds
    modelCache,        \* AssetManager.modelCache: the paths it holds
    pending,           \* the loads handed to a THREE loader and not completed yet
    loading,           \* loadCharacter: the load in flight and the locals of its closures
    loadLog,           \* history: the loads loadCharacter started and how each ended
    callbacks,         \* history: the number of times loadCharacter called its callback
    character,         \* main.js: character (Undefined until the callback sets it)
    mixer,             \* main.js: mixer
    idleAction,        \* main.js: idleAction
    walkAction,        \* main.js: walkAction
    runAction,         \* main.js: runAction
    currentAction,     \* main.js: currentAction
    keys,              \* main.js: keys
    camera,            \* main.js: camera.position and the point the camera looks at
    restarts,          \* history: the number of reset() calls each action has received
    frames             \* history: the number of animate() frames

vars == <<terrainSize, heightData, collisionObjects, collisionGrid, result,
          addedBeforeInit, tHeightData, terrain, generated, noise, samples,
          data, stamps, meshes, placed,
          assetsLoaded, totalAssets, percent, textureCache, materialCache, modelCache,
          pending, loading, loadLog, callbacks, character, mixer, idleAction, walkAction,
          runAction, currentAction, keys, camera, restarts, frames>>

collisionVars == <<terrainSize, heightData, collisionObjects, collisionGrid, addedBeforeInit,
                   meshes>>
terrainVars == <<tHeightData, terrain, generated>>
noiseVars == <<noise, samples>>
dataVars == <<data, stamps>>
sceneVars == <<placed>>
engineVars == <<assetsLoaded, totalAssets, percent>>
cacheVars == <<textureCache, materialCache, modelCache>>
assetVars == <<engineVars, cacheVars, pending>>
loaderVars == <<loading, loadLog, callbacks>>
actionVars == <<idleAction, walkAction, runAction, currentAction>>
characterVars == <<loaderVars, character, mixer, actionVars, keys, camera, restarts, frames>>
appVars == <<assetVars, characterVars>>

----------------------------------------------------------------------------
(* Bounds of the model *)

MaxObjects == 2      \* obstacles added in one run
MaxRes == 3          \* side of the height grids
MaxRuns == 2         \* runs of TerrainSystem.init that are compared
MaxDunes == 2        \* dunes stamped per run (the source stamps 30)
MaxSamples == 3      \* noise2D calls remembered
MaxStamps == 2       \* direct addDune calls after a generation run
MaxPlaced == 2       \* scatter passes made while fewer objects than this are placed
MaxFrames == 2       \* animate() frames
MaxAssets == 2       \* loads are started while fewer assets than this are counted

----------------------------------------------------------------------------
(* JavaScript values *)

Undefined == [undefined |-> TRUE]
NaNv == [nan |-> TRUE]
Val(n) == [v |-> n]

Abs(n) == IF n < 0 THEN -n ELSE n
Max(a, b) == IF a >= b THEN a ELSE b
Min(a, b) == IF a <= b THEN a ELSE b

RECURSIVE Gcd(_, _)
Gcd(a, b) == IF b = 0 THEN a ELSE Gcd(b, a % b)

\* a height: the fraction n/d in lowest terms, d > 0
Num(n, d) == LET g == Gcd(Abs(n), d) IN [num |-> n \div g, den |-> d \div g]
NaN == [num |-> 0, den |-> 0]
Zero == Num(0, 1)
IsNaN(a) == a.den = 0

\* a * b, a + b on heights; an undefined or NaN operand gives NaN
Mul(a, b) ==
    IF a = Undefined \/ b = Undefined THEN NaN
    ELSE IF IsNaN(a) \/ IsNaN(b) THEN NaN
    ELSE Num(a.num * b.num, a.den * b.den)
Add(a, b) ==
    IF IsNaN(a) \/ IsNaN(b) THEN NaN
    ELSE Num(a.num * b.den + b.num * a.den, a.den * b.den)

\* the array f on from..to, every element computed once, when the array is
\* built (what an assignment in a loop does)
RECURSIVE Filled(_, _, _)
Filled(f, from, to) ==
    IF from >= to THEN (from :> f[from])
    ELSE LET mid == (from + to) \div 2
         IN  Filled(f, from, mid) @@ Filled(f, mid + 1, to)

\* the table f on the set S, every entry computed once
RECURSIVE TableOn(_, _)
TableOn(f, S) ==
    LET x == CHOOSE x \in S : TRUE
    IN  IF S = {x} THEN (x :> f[x]) ELSE (x :> f[x]) @@ TableOn(f, S \ {x})

\* the elements of the set S, computed once
Listed(S) == IF Cardinality(S) >= 0 THEN S ELSE {}

\* the n x n array of arrays g, every cell computed once
Filled2(g, n) == Filled([y \in 0..(n - 1) |-> Filled(g[y], 0, n - 1)], 0, n - 1)

----------------------------------------------------------------------------
(* CollisionSystem: the spatial grid *)

gridSize == 10

\* Math.floor((c + terrainSize/2) / gridSize) for an integer c
CellOf(c, size) ==
    IF size = Undefined THEN NaNv
    ELSE Val((2 * c + size.v) \div (2 * gridSize))

\* the values a loop  for (x = lo; x <= hi; x++)  visits, in order
LoopRange(lo, hi) ==
    IF lo = NaNv \/ hi = NaNv \/ lo.v > hi.v THEN <<>>
    ELSE [k \in 1..(hi.v - lo.v + 1) |-> lo.v + k - 1]

Offset(c, d) == IF c = NaNv THEN NaNv ELSE Val(c.v + d)

SeqToSet(s) == {s[k] : k \in 1..Len(s)}

\* the keys of loops that stop before maxCellX and maxCellZ
GridKeys_ExclusiveMax(cd, size) ==
    LET xs == LoopRange(CellOf(cd.position.x - cd.radius, size),
                        Offset(CellOf(cd.position.x + cd.radius, size), -1))
        zs == LoopRange(CellOf(cd.position.z - cd.radius, size),
                        Offset(CellOf(cd.position.z + cd.radius, size), -1))
    IN  SeqToSet(xs) \X SeqToSet(zs)

\* the keys addToGrid pushes the obstacle into
GridKeys(cd, size) ==
    LET xs == LoopRange(CellOf(cd.position.x - cd.radius, size),
                        CellOf(cd.position.x + cd.radius, size))
        zs == LoopRange(CellOf(cd.position.z - cd.radius, size),
                        CellOf(cd.position.z + cd.radius, size))
    IN  SeqToSet(xs) \X SeqToSet(zs)

addToGrid(grid, cd, size) ==
    LET cellKeys == GridKeys(cd, size)
    IN  [k \in (DOMAIN grid) \cup cellKeys |->
            IF k \in cellKeys
            THEN Append(IF k \in DOMAIN grid THEN grid[k] ELSE <<>>, cd)
            ELSE grid[k]]

RECURSIVE Concat(_)
Concat(ss) == IF ss = <<>> THEN <<>> ELSE Head(ss) \o Concat(Tail(ss))

Bucket(grid, x, z) == IF <<x, z>> \in DOMAIN grid THEN grid[<<x, z>>] ELSE <<>>

\* s without the entries that repeat an earlier one
RECURSIVE Distinct(_)
Distinct(s) ==
    IF s = <<>> THEN <<>>
    ELSE LET front == Distinct(SubSeq(s, 1, Len(s) - 1))
         IN  IF s[Len(s)] \in SeqToSet(front) THEN front ELSE Append(front, s[Len(s)])

\* getNearbyObjects listing every obstacle of the block once
getNearbyObjects_Distinct(grid, cellX, cellZ) ==
    LET xs == LoopRange(Offset(cellX, -1), Offset(cellX, 1))
        zs == LoopRange(Offset(cellZ, -1), Offset(cellZ, 1))
    IN  Distinct(Concat([a \in 1..Len(xs) |->
                  Concat([b \in 1..Len(zs) |-> Bucket(grid, xs[a], zs[b])])]))

\* the buckets of the 3x3 block around (cellX, cellZ), x outer, z inner
getNearbyObjects(grid, cellX, cellZ) ==
    LET xs == LoopRange(Offset(cellX, -1), Offset(cellX, 1))
        zs == LoopRange(Offset(cellZ, -1), Offset(cellZ, 1))
    IN  Concat([a \in 1..Len(xs) |->
                  Concat([b \in 1..Len(zs) |-> Bucket(grid, xs[a], zs[b])])])

----------------------------------------------------------------------------
(* TerrainSystem: module state and public API *)

TerrainSystem_terrainSize == 1000
maxHeight == Num(20, 1)

\* the properties of the object the TerrainSystem module returns
TerrainSystemAPI == {"init", "getHeightAt"}

\* the expression TerrainSystem.maxHeight, evaluated outside the module
TerrainSystem_maxHeight ==
    IF "maxHeight" \in TerrainSystemAPI THEN maxHeight ELSE Undefined

----------------------------------------------------------------------------
(* CollisionSystem: queries *)

\* getHeightAt without the upper bounds check
getHeightAt_LowerBoundOnly(hd, size, x, z) ==
    IF hd = Undefined THEN [value |-> Zero, reads |-> {}]
    ELSE
    LET n == Cardinality(DOMAIN hd.v)
        D == 2 * size.v
        nxN == 2 * x + size.v
        nzN == 2 * z + size.v
    IN  IF nxN < 0 \/ nzN < 0
        THEN [value |-> Zero, reads |-> {}]
        ELSE
        LET ix == Min((nxN * (n - 1)) \div D, n - 2)
            iz == Min((nzN * (n - 1)) \div D, n - 2)
        IN  [value |-> Mul(hd.v[iz][ix], TerrainSystem_maxHeight),
             reads |-> {<<iz, ix>>, <<iz, ix + 1>>, <<iz + 1, ix>>, <<iz + 1, ix + 1>>}]

\* getHeightAt; hd is heightData, size is terrainSize.  Returns the value and
\* the set of heightData cells <<row, column>> the call read.
getHeightAt(hd, size, x, z) ==
    IF hd = Undefined THEN [value |-> Zero, reads |-> {}]
    ELSE
    LET grid == hd.v
        terrainResolution == Cardinality(DOMAIN grid)
        S == size.v
        \* nx = nxN / D, nz = nzN / D
        D == 2 * S
        nxN == 2 * x + S
        nzN == 2 * z + S
    IN  IF nxN < 0 \/ nxN > D \/ nzN < 0 \/ nzN > D
        THEN [value |-> Zero, reads |-> {}]
        ELSE
        LET ix == Min((nxN * (terrainResolution - 1)) \div D, terrainResolution - 2)
            iz == Min((nzN * (terrainResolution - 1)) \div D, terrainResolution - 2)
            fx == Num(nxN * (terrainResolution - 1) - ix * D, D)
            fz == Num(nzN * (terrainResolution - 1) - iz * D, D)
            oneMinusFx == Num(D - (nxN * (terrainResolution - 1) - ix * D), D)
            oneMinusFz == Num(D - (nzN * (terrainResolution - 1) - iz * D), D)
            h1 == Mul(grid[iz][ix], TerrainSystem_maxHeight)
            h2 == Mul(grid[iz][ix + 1], TerrainSystem_maxHeight)
            h3 == Mul(grid[iz + 1][ix], TerrainSystem_maxHeight)
            h4 == Mul(grid[iz + 1][ix + 1], TerrainSystem_maxHeight)
            h12 == Add(Mul(h1, oneMinusFx), Mul(h2, fx))
            h34 == Add(Mul(h3, oneMinusFx), Mul(h4, fx))
        IN  [value |-> Add(Mul(h12, oneMinusFz), Mul(h34, fz)),
             reads |-> {<<iz, ix>>, <<iz, ix + 1>>, <<iz + 1, ix>>, <<iz + 1, ix + 1>>}]

\* distance < reach, where distance = sqrt(dx*dx + dz*dz)
DistanceLess(dx, dz, reach) == reach > 0 /\ dx * dx + dz * dz < reach * reach

\* new THREE.Vector3(x, y, z).normalize(): the vector divided by
\* (length() || 1).  The result is (x, y, z) / sqrt(div2).
Normalize(x, y, z) ==
    LET len2 == x * x + y * y + z * z
    IN  [x |-> x, y |-> y, z |-> z, div2 |-> IF len2 = 0 THEN 1 ELSE len2]

\* the penetration without the obstacle's radius
Penetration_NoObstacleRadius(radius, objRadius, dx, dz) ==
    [sum |-> radius, dist2 |-> dx * dx + dz * dz]

\* radius + obj.radius - distance, kept as the pair (sum, dist2): it is
\* sum - sqrt(dist2)
Penetration(radius, objRadius, dx, dz) ==
    [sum |-> radius + objRadius, dist2 |-> dx * dx + dz * dz]

\* index of the last candidate that overlaps the query circle, 0 if none
FirstHit_Last(nearby, position, radius) ==
    LET hits == {k \in 1..Len(nearby) :
                    DistanceLess(position.x - nearby[k].position.x,
                                 position.z - nearby[k].position.z,
                                 radius + nearby[k].radius)}
    IN  IF hits = {} THEN 0 ELSE CHOOSE k \in hits : \A m \in hits : k >= m

\* index of the first candidate the scan of checkCollision hits, 0 if none
FirstHit(nearby, position, radius) ==
    LET hits == {k \in 1..Len(nearby) :
                    DistanceLess(position.x - nearby[k].position.x,
                                 position.z - nearby[k].position.z,
                                 radius + nearby[k].radius)}
    IN  IF hits = {} THEN 0 ELSE CHOOSE k \in hits : \A m \in hits : k <= m

\* checkCollision resolving the terrain height only when an obstacle is hit
checkCollision_TerrainYOnHit(grid, hd, size, position, radius) ==
    LET nearbyObjects == getNearbyObjects(grid, CellOf(position.x, size), CellOf(position.z, size))
        hit == FirstHit(nearbyObjects, position, radius)
    IN  IF hit # 0
        THEN LET obj == nearbyObjects[hit]
                 dx == position.x - obj.position.x
                 dz == position.z - obj.position.z
             IN  [collision |-> TRUE,
                  object |-> obj.object,
                  normal |-> Normalize(dx, 0, dz),
                  penetration |-> Penetration(radius, obj.radius, dx, dz),
                  terrainY |-> getHeightAt(hd, size, position.x, position.z).value]
        ELSE [collision |-> FALSE, terrainY |-> Zero]

\* checkCollision(position, radius)
checkCollision(grid, hd, size, position, radius) ==
    LET terrainY == getHeightAt(hd, size, position.x, position.z).value
        cellX == CellOf(position.x, size)
        cellZ == CellOf(position.z, size)
        nearbyObjects == getNearbyObjects(grid, cellX, cellZ)
        hit == FirstHit(nearbyObjects, position, radius)
    IN  IF hit # 0
        THEN LET obj == nearbyObjects[hit]
                 dx == position.x - obj.position.x
                 dz == position.z - obj.position.z
             IN  [collision |-> TRUE,
                  object |-> obj.object,
                  normal |-> Normalize(dx, 0, dz),
                  penetration |-> Penetration(radius, obj.radius, dx, dz),
                  terrainY |-> terrainY]
        ELSE [collision |-> FALSE, terrainY |-> terrainY]

----------------------------------------------------------------------------
(* CollisionSystem: operations *)

\* init(scene, terrainData); the mesh reference terrain is left out
CInit(terrainData) ==
    /\ terrainSize' = Val(terrainData.terrainSize)
    /\ heightData' = Val(terrainData.heightData)
    /\ result' = [op |-> "init"]
    /\ UNCHANGED <<collisionObjects, collisionGrid, addedBeforeInit, meshes>>
    /\ UNCHANGED <<terrainVars, noiseVars, dataVars, sceneVars, appVars>>

\* boundingRadius || Math.max(object.scale.x, object.scale.z) * 0.5
\* (the scales of the model are even, so the half is exact)
RadiusOf(object, boundingRadius) ==
    IF boundingRadius = Undefined \/ boundingRadius = NaNv \/ boundingRadius = Val(0)
    THEN Max(object.scale.x, object.scale.z) \div 2
    ELSE boundingRadius.v

\* addCollisionObject(object, boundingRadius)
AddCollisionObject(object, boundingRadius) ==
    /\ Len(collisionObjects) < MaxObjects
    /\ LET collisionData == [object |-> object.id,
                             position |-> object.position,
                             radius |-> RadiusOf(object, boundingRadius)]
       IN  /\ collisionObjects' = Append(collisionObjects, collisionData)
           /\ collisionGrid' = addToGrid(collisionGrid, collisionData, terrainSize)
           /\ result' = [op |-> "addCollisionObject", ret |-> collisionData]
    /\ meshes' = Append(meshes, [position |-> object.position, added |-> object.position])
    /\ addedBeforeInit' = IF terrainSize = Undefined
                          THEN addedBeforeInit \cup {object.id}
                          ELSE addedBeforeInit
    /\ UNCHANGED <<terrainSize, heightData>>
    /\ UNCHANGED <<terrainVars, noiseVars, dataVars, sceneVars, appVars>>

\* the number of candidates the loop of checkCollision tests before it
\* returns: up to the first hit, all of them when there is none
Examined(grid, size, position, radius) ==
    LET nearbyObjects == getNearbyObjects(grid, CellOf(position.x, size), CellOf(position.z, size))
        hit == FirstHit(nearbyObjects, position, radius)
    IN  IF hit # 0 THEN hit ELSE Len(nearbyObjects)

\* checkCollision whose scan creates the buckets it does not find
CheckCollision_CreatesBuckets(position, radius) ==
    /\ result' = [op |-> "checkCollision", position |-> position, radius |-> radius,
                  ret |-> checkCollision(collisionGrid, heightData, terrainSize,
                                         position, radius),
                  examined |-> Examined(collisionGrid, terrainSize, position, radius)]
    /\ LET xs == LoopRange(Offset(CellOf(position.x, terrainSize), -1),
                           Offset(CellOf(position.x, terrainSize), 1))
           zs == LoopRange(Offset(CellOf(position.z, terrainSize), -1),
                           Offset(CellOf(position.z, terrainSize), 1))
           cellKeys == SeqToSet(xs) \X SeqToSet(zs)
       IN  collisionGrid' = [k \in (DOMAIN collisionGrid) \cup cellKeys |->
                                Bucket(collisionGrid, k[1], k[2])]
    /\ UNCHANGED <<terrainSize, heightData, collisionObjects, addedBeforeInit, meshes>>
    /\ UNCHANGED <<terrainVars, noiseVars, dataVars, sceneVars, appVars>>

\* a call of checkCollision(position, radius); examined is a record of how
\* far its loop went
CheckCollision(position, radius) ==
    /\ result' = [op |-> "checkCollision", position |-> position, radius |-> radius,
                  ret |-> checkCollision(collisionGrid, heightData, terrainSize,
                                         position, radius),
                  examined |-> Examined(collisionGrid, terrainSize, position, radius)]
    /\ UNCHANGED collisionVars
    /\ UNCHANGED <<terrainVars, noiseVars, dataVars, sceneVars, appVars>>

\* CollisionSystem.getHeightAt(x, z)
GetHeightAt(x, z) ==
    /\ LET r == getHeightAt(heightData, terrainSize, x, z)
       IN  result' = [op |-> "getHeightAt", x |-> x, z |-> z,
                      ret |-> r.value, reads |-> r.reads]
    /\ UNCHANGED collisionVars
    /\ UNCHANGED <<terrainVars, noiseVars, dataVars, sceneVars, appVars>>

\* what an assignment to the position of mesh id does to a collision data
\* record that holds that very Vector3 as its position
WritePosition_SharedVector(cd, id, to) ==
    IF cd.object = id THEN [cd EXCEPT !.position = to] ELSE cd

\* what an assignment to the position of mesh id does to a collision data
\* record: its position is the Vector3 clone() made, which no mesh holds
WritePosition(cd, id, to) == cd

\* the caller moves a mesh it has added:  object.position.copy(to)
MovePosition(id, to) ==
    /\ id \in 1..Len(meshes)
    /\ meshes[id].position # to
    /\ meshes' = [meshes EXCEPT ![id].position = to]
    /\ collisionObjects' = [k \in 1..Len(collisionObjects) |->
                                WritePosition(collisionObjects[k], id, to)]
    /\ collisionGrid' = [key \in DOMAIN collisionGrid |->
                             [n \in 1..Len(collisionGrid[key]) |->
                                 WritePosition(collisionGrid[key][n], id, to)]]
    /\ result' = [op |-> "movePosition", object |-> id, to |-> to]
    /\ UNCHANGED <<terrainSize, heightData, addedBeforeInit>>
    /\ UNCHANGED <<terrainVars, noiseVars, dataVars, sceneVars, appVars>>

----------------------------------------------------------------------------
(* SimplexNoise.  Coordinates and noise values are fixed point, FP units   *)
(* per 1, rounded down.  A seed is a multiple of 1/SeedDen, held as its    *)
(* numerator.                                                              *)

FP == 10 * 100       \* fixed-point units per 1
SeedDen == 2 * 4     \* seed units per 1

\* _seededRandom: seed = (seed * 9301 + 49297) % 233280, JavaScript's %
\* taking the sign of the dividend.  The product is formed in two steps
\* (9301 = 93 * 100 + 1) to stay inside TLC's 32-bit integers.
LcgModulus == 233280 * SeedDen
LcgIncrement == 49297 * SeedDen
LcgStep(seed) ==
    LET floored == (((seed * 93) % LcgModulus) * 100 + seed + LcgIncrement) % LcgModulus
        negative == seed < 0 /\ (-seed) > LcgIncrement \div 9301
    IN  IF negative /\ floored # 0 THEN floored - LcgModulus ELSE floored

\* [this.p[i], this.p[j]] = [this.p[j], this.p[i]] on a Uint8Array: an index
\* outside the array reads undefined, stored as 0, and its write is dropped
Swap(p, i, j) ==
    IF j \in DOMAIN p
    THEN [p EXCEPT ![i] = p[j], ![j] = p[i]]
    ELSE [p EXCEPT ![i] = 0]

\* one pass of the shuffle loop body at index i, the generator's state being
\* st.seed: j = Math.floor(rand() * (i + 1)), then the swap
ShuffleStep(st, i) ==
    LET next == LcgStep(st.seed)
        j == (next * (i + 1)) \div LcgModulus
    IN  [p |-> Swap(st.p, i, j), seed |-> next]

\* the passes of  for (i = hi; i >= lo; i--)  in that order (the range is
\* halved rather than walked, which keeps the evaluation shallow)
RECURSIVE ShuffleRange(_, _, _)
ShuffleRange(st, hi, lo) ==
    IF hi < lo THEN st
    ELSE IF hi = lo THEN ShuffleStep(st, hi)
    ELSE LET mid == (hi + lo) \div 2
             upper == ShuffleRange(st, hi, mid + 1)
         IN  \* the test makes TLC compute upper before it goes on
             IF upper.seed = upper.seed THEN ShuffleRange(upper, mid, lo) ELSE upper

Shuffle(p, seed) == ShuffleRange([p |-> p, seed |-> seed], 255, 1).p

\* new SimplexNoise(seed): the three tables
SimplexNoise(seed) ==
    LET p == Shuffle([i \in 0..255 |-> i], seed)
        perm == [i \in 0..511 |-> p[i % 256]]
    IN  [seed |-> seed,
         p |-> p,
         perm |-> perm,
         permMod12 |-> [i \in 0..511 |-> perm[i] % 12]]

\* _gradient2D(hash, x, y)
gradient2D(hash, x, y) ==
    LET h == hash % 8
        u == IF h < 4 THEN x ELSE y
        v == IF h < 4 THEN y ELSE x
    IN  (IF h % 2 = 1 THEN -u ELSE u) + (IF (h \div 2) % 2 = 1 THEN -2 * v ELSE 2 * v)

F2 == 366    \* 0.5 * (Math.sqrt(3) - 1), in 1/FP
G2 == 211    \* (3 - Math.sqrt(3)) / 6,   in 1/FP

\* noise2D(x, y) on the instance sn
noise2D(sn, x, y) ==
    LET s == ((x + y) * F2) \div FP
        i == (x + s) \div FP
        j == (y + s) \div FP
        t == (i + j) * G2
        x0 == x - (i * FP - t)
        y0 == y - (j * FP - t)
        i1 == IF x0 > y0 THEN 1 ELSE 0
        j1 == IF x0 > y0 THEN 0 ELSE 1
        x1 == x0 - i1 * FP + G2
        y1 == y0 - j1 * FP + G2
        x2 == x0 - FP + 2 * G2
        y2 == y0 - FP + 2 * G2
        ii == i % 256
        jj == j % 256
        n0 == gradient2D(sn.permMod12[ii + sn.perm[jj]], x0, y0)
        n1 == gradient2D(sn.permMod12[ii + i1 + sn.perm[jj + j1]], x1, y1)
        n2 == gradient2D(sn.permMod12[ii + 1 + sn.perm[jj + 1]], x2, y2)
    IN  70 * (n0 + n1 + n2)

\* new SimplexNoise(seed), kept as instance k
Construct(k, seed) ==
    /\ k = Len(noise) + 1
    /\ noise' = Append(noise, SimplexNoise(seed))
    /\ UNCHANGED <<samples, collisionVars, terrainVars, dataVars, sceneVars, appVars, result>>

\* noise2D advancing the permutation table on every call
Noise2D_AdvancesTable(k, x, y) ==
    /\ k \in 1..Len(noise)
    /\ Len(samples) < MaxSamples
    /\ samples' = Append(samples, [instance |-> k, seed |-> noise[k].seed,
                                   x |-> x, y |-> y,
                                   value |-> noise2D(noise[k], x, y)])
    /\ noise' = [noise EXCEPT ![k].perm = [i \in 0..511 |-> noise[k].perm[(i + 1) % 512]]]
    /\ UNCHANGED <<collisionVars, terrainVars, dataVars, sceneVars, appVars, result>>

\* noise[k].noise2D(x, y)
Noise2D(k, x, y) ==
    /\ k \in 1..Len(noise)
    /\ Len(samples) < MaxSamples
    /\ samples' = Append(samples, [instance |-> k, seed |-> noise[k].seed,
                                   x |-> x, y |-> y,
                                   value |-> noise2D(noise[k], x, y)])
    /\ UNCHANGED <<noise, collisionVars, terrainVars, dataVars, sceneVars, appVars, result>>

----------------------------------------------------------------------------
(* TerrainSystem: heightfield generation.  Grid cells are fixed point      *)
(* (Val(h), h in 1/FP) or NaNv while the grid is built.  Math.random() is  *)
(* a stream rnd: its k-th call in a run returns rnd[k] / FP.               *)

\* the grid side: 256 in the source, scaled down to three cells per unit of
\* the model's bound, which leaves cells beyond the reach of a dune
terrainResolution == 3 * MaxRes
\* the dunes per run: 30 in the source, scaled down to the model's bound
duneCount == MaxDunes
DrawsPerDune == 6

\* largest r with r * r <= n
RECURSIVE SqrtSearch(_, _, _)
SqrtSearch(n, lo, hi) ==
    IF lo >= hi THEN lo
    ELSE LET mid == (lo + hi + 1) \div 2
         IN  IF mid * mid <= n THEN SqrtSearch(n, mid, hi) ELSE SqrtSearch(n, lo, mid - 1)
ISqrt(n) == SqrtSearch(n, 0, Min(n, 46340))

\* Math.pow(a, 1.5): a * sqrt(a), NaN for a negative base
Pow15(a) ==
    IF a = NaNv \/ a.v < 0 THEN NaNv
    ELSE LET root == ISqrt(a.v * FP)
         IN  Val((a.v \div FP) * root + ((a.v % FP) * root) \div FP)

\* Math.sin(r * Math.PI) and Math.cos(r * Math.PI) for 0 <= r <= 1, by
\* Bhaskara's formula 16 r (1 - r) / (5 - 4 r (1 - r)), which is within 0.002
SinPi(r) == LET q == r * (FP - r) IN (16 * q) \div ((5 * FP * FP - 4 * q) \div FP)
CosPi(r) == IF 2 * r <= FP THEN SinPi(r + FP \div 2) ELSE -SinPi(r - FP \div 2)

\* the Math.random() call that seeds  new SimplexNoise()
SeedOf(r) == (r * SeedDen) \div FP

\* generateSimplexNoise(width, height, scale); rnd[1] seeds the noise
generateSimplexNoise(width, height, scale, rnd) ==
    LET simplex == SimplexNoise(SeedOf(rnd[1]))
    IN  [y \in 0..(height - 1) |-> [x \in 0..(width - 1) |->
            LET nx == (x * FP) \div width - FP \div 2
                ny == (y * FP) \div height - FP \div 2
                large == (noise2D(simplex, nx * scale, ny * scale) * 7) \div 10
                medium == (noise2D(simplex, nx * scale * 2, ny * scale * 2) * 2) \div 10
                small == noise2D(simplex, nx * scale * 4, ny * scale * 4) \div 10
            IN  Val((large + medium + small + FP) \div 2)]]

\* the parameters of dune i (from 0), drawn in the order of the source
Dune(i, rnd) ==
    LET k == 1 + DrawsPerDune * i
    IN  [centerX |-> (rnd[k + 1] * terrainResolution) \div FP,
         centerY |-> (rnd[k + 2] * terrainResolution) \div FP,
         radius |-> (rnd[k + 3] * 20) \div FP + 10,
         height |-> rnd[k + 4] \div 2 + FP \div 10,
         elongation |-> rnd[k + 5] * 3 + FP,
         rotation |-> rnd[k + 6]]

\* the values of  for (v = from; v < to; v++)
Upto(from, to) == from..(to - 1)

\* the cells <<y, x>> the two loops of a dune visit, without the clamps
DuneLoopCells_Unclamped(dune) ==
    Upto(dune.centerY - dune.radius, dune.centerY + dune.radius)
        \X Upto(dune.centerX - dune.radius, dune.centerX + dune.radius)

\* the cells <<y, x>> the two loops of a dune visit
DuneLoopCells(dune) ==
    Upto(Max(0, dune.centerY - dune.radius), Min(terrainResolution, dune.centerY + dune.radius))
        \X Upto(Max(0, dune.centerX - dune.radius), Min(terrainResolution, dune.centerX + dune.radius))

\* the rotated, elongation-scaled distance of cell (y, x) from the centre
DuneDistance(dune, y, x) ==
    LET dx == x - dune.centerX
        dy == y - dune.centerY
        rotatedX == dx * CosPi(dune.rotation) - dy * SinPi(dune.rotation)
        rotatedY == dx * SinPi(dune.rotation) + dy * CosPi(dune.rotation)
        normalizedX == (rotatedX * FP) \div dune.elongation
        normalizedY == rotatedY
    IN  ISqrt(normalizedX * normalizedX + normalizedY * normalizedY)

\* the cells whose element the loop body assigns: distance < radius
DuneWrites(dune) ==
    {c \in DuneLoopCells(dune) : DuneDistance(dune, c[1], c[2]) < dune.radius * FP}

\* what one dune adds to cell (y, x); 0 when the cell is not assigned
Contribution(dune, y, x) ==
    IF <<y, x>> \in DuneWrites(dune)
    THEN LET falloff == FP - DuneDistance(dune, y, x) \div dune.radius
         IN  (((falloff * falloff) \div FP) * dune.height) \div FP
    ELSE 0

\* heightmap[y][x] += contribution, for the cells of the grid (an element
\* outside it is not one of the grid's cells)
StampDune(heightmap, dune) ==
    Filled2([y \in DOMAIN heightmap |-> [x \in DOMAIN heightmap[y] |->
                IF <<y, x>> \notin DuneWrites(dune) THEN heightmap[y][x]
                ELSE IF heightmap[y][x] = NaNv THEN NaNv
                ELSE Val(heightmap[y][x].v + Contribution(dune, y, x))]],
            terrainResolution)

\* addDesertDunes(heightmap): dunes i, i + 1, ..., duneCount - 1
RECURSIVE addDesertDunes(_, _, _)
addDesertDunes(heightmap, i, rnd) ==
    IF i >= duneCount THEN heightmap
    ELSE addDesertDunes(StampDune(heightmap, Dune(i, rnd)), i + 1, rnd)

\* height * 0.8
Times08(height) == IF height = NaNv THEN NaNv ELSE Val((height.v * 8) \div 10)

\* the shaped base noise of a run: generateDesertHeightmap() up to the call
\* of addDesertDunes
ShapedBase(rnd) ==
    LET baseNoise == generateSimplexNoise(terrainResolution, terrainResolution, 5, rnd)
    IN  Filled2([y \in 0..(terrainResolution - 1) |-> [x \in 0..(terrainResolution - 1) |->
                    Times08(Pow15(baseNoise[y][x]))]],
                terrainResolution)

\* generateDesertHeightmap()
generateDesertHeightmap(rnd) == addDesertDunes(ShapedBase(rnd), 0, rnd)

\* a stream of Math.random() results: a, a + b, a + 2b, ... (mod 1)
Stream(a, b) == [k \in 1..(1 + DrawsPerDune * duneCount) |-> (a + (k - 1) * b) % FP]
RandomStreams == {Stream(0, 0), Stream(250, 137)}
WorldSeeds == {7, 11}

\* generateDesertHeightmap() under each stream of the model, computed once
Heightmaps == TableOn([rnd \in RandomStreams |-> generateDesertHeightmap(rnd)], RandomStreams)

\* the grid before the first dune and after each dune of a run
RECURSIVE StagesFrom(_, _, _)
StagesFrom(heightmap, i, rnd) ==
    IF i >= duneCount THEN <<heightmap>>
    ELSE <<heightmap>> \o StagesFrom(StampDune(heightmap, Dune(i, rnd)), i + 1, rnd)

\* the dunes of a run and the grids between them, under each stream
DuneStages == TableOn([rnd \in RandomStreams |->
                          [dunes |-> Filled([i \in 1..duneCount |-> Dune(i - 1, rnd)],
                                            1, duneCount),
                           stages |-> StagesFrom(ShapedBase(rnd), 0, rnd)]],
                      RandomStreams)

\* the cells the dunes of a run assign, under each stream
WriteSets == TableOn([rnd \in RandomStreams |->
                         Listed(UNION {DuneWrites(Dune(i, rnd)) : i \in 0..(duneCount - 1)})],
                     RandomStreams)

\* the dunes of a recorded run, the grids between them and the cells they
\* assigned
DunesOf(run) == DuneStages[run.random].dunes
StagesOf(run) == DuneStages[run.random].stages
WritesOf(run) == WriteSets[run.random]

\* a generated cell as a height
HeightOf(c) == IF c = NaNv THEN NaN ELSE Num(c.v, FP)

\* new THREE.PlaneGeometry(size, size, n - 1, n - 1): the position array,
\* vertex (i, j) at (j * size/(n-1) - size/2, size/2 - i * size/(n-1), 0)
PlaneGeometry(size, n) ==
    [k \in 0..(n * n * 3 - 1) |->
        LET vertex == k \div 3
            i == vertex \div n
            j == vertex % n
        IN  CASE k % 3 = 0 -> Num(2 * j * size - size * (n - 1), 2 * (n - 1))
              [] k % 3 = 1 -> Num(size * (n - 1) - 2 * i * size, 2 * (n - 1))
              [] OTHER -> Zero]

\* the element of the position array the loop body writes for vertex (i, j)
VertexIndex(i, j) == (i * terrainResolution + j) * 3 + 1

\* createTerrainGeometry(): the position array after the loops
createTerrainGeometry(hd) ==
    LET positions == PlaneGeometry(TerrainSystem_terrainSize, terrainResolution)
        written == {VertexIndex(i, j) : i \in 0..(terrainResolution - 1),
                                        j \in 0..(terrainResolution - 1)}
    IN  [k \in DOMAIN positions |->
            IF k \in written
            THEN Mul(hd[(k \div 3) \div terrainResolution][(k \div 3) % terrainResolution],
                     maxHeight)
            ELSE positions[k]]

\* a generated grid with its cells as heights
HeightsOf(grid) ==
    Filled2([y \in DOMAIN grid |-> [x \in DOMAIN grid[y] |-> HeightOf(grid[y][x])]],
            terrainResolution)
\* what init stores for heightData hd: hd itself and the position array of
\* the mesh made from it
InitRun(hd) ==
    [heightData |-> hd,
     terrain |-> Filled(createTerrainGeometry(hd), 0,
                        terrainResolution * terrainResolution * 3 - 1)]
\* what init stores under each stream of the model, computed once
InitRuns ==
    TableOn([rnd \in RandomStreams |-> InitRun(HeightsOf(Heightmaps[rnd]))], RandomStreams)

\* TerrainSystem.init(scene); seed is the world seed the caller holds, for
\* which init has no parameter.  The material is left out.
TInit(seed, rnd) ==
    /\ Len(generated) < MaxRuns
    /\ \E run \in {InitRuns[rnd]} :
           /\ tHeightData' = Val(run.heightData)
           /\ terrain' = Val(run.terrain)
           /\ generated' = Append(generated, [seed |-> seed, heightData |-> run.heightData,
                                               random |-> rnd])
    /\ result' = [op |-> "TerrainSystem.init"]
    /\ UNCHANGED <<collisionVars, noiseVars, dataVars, sceneVars, appVars>>

\* TerrainSystem.getHeightAt; hd is the module's heightData
TerrainGetHeightAt(hd, x, z) ==
    IF hd = Undefined THEN [value |-> Zero, reads |-> {}]
    ELSE
    LET D == 2 * TerrainSystem_terrainSize
        normalizedX == 2 * x + TerrainSystem_terrainSize     \* over D
        normalizedZ == 2 * z + TerrainSystem_terrainSize     \* over D
    IN  IF normalizedX < 0 \/ normalizedX > D \/ normalizedZ < 0 \/ normalizedZ > D
        THEN [value |-> Zero, reads |-> {}]
        ELSE
        LET xIndex == Min(terrainResolution - 1, (normalizedX * terrainResolution) \div D)
            zIndex == Min(terrainResolution - 1, (normalizedZ * terrainResolution) \div D)
        IN  [value |-> Mul(hd.v[zIndex][xIndex], maxHeight),
             reads |-> {<<zIndex, xIndex>>}]

\* TerrainSystem.getHeightAt(x, z)
TGetHeightAt(x, z) ==
    /\ LET r == TerrainGetHeightAt(tHeightData, x, z)
       IN  result' = [op |-> "TerrainSystem.getHeightAt", x |-> x, z |-> z,
                      ret |-> r.value, reads |-> r.reads]
    /\ UNCHANGED <<collisionVars, terrainVars, noiseVars, dataVars, sceneVars, appVars>>

\* CollisionSystem.init(scene, TerrainSystem.init(scene))
CInitFromTerrain ==
    /\ tHeightData # Undefined
    /\ CInit([heightData |-> tHeightData.v, terrainSize |-> TerrainSystem_terrainSize])

----------------------------------------------------------------------------
(* terrain.js: the second heightfield generator.  Cells are fixed point, in *)
(* 1/FP; they are always numbers here.                                      *)

\* the grid side createRealisticDesertEnvironment asks for: 128 in the
\* source, scaled down to two cells per unit of the model's bound
heightfieldResolution == 2 * MaxRes
\* the dunes of a run: 20 in the source, scaled down to the model's bound
terrainDunes == MaxDunes

PiFP == 3142     \* Math.PI, in 1/FP

\* Math.sin(x) and Math.cos(x) for x >= 0 in 1/FP radians
Sin(x) ==
    LET t == ((x * FP) \div PiFP) % (2 * FP)
    IN  IF t <= FP THEN SinPi(t) ELSE -SinPi(t - FP)
Cos(x) == Sin(x + PiFP \div 2)

\* addNoiseLayer(data, resolution, amplitude, frequency)
addNoiseLayer(d, resolution, amplitude, frequency) ==
    Filled2([i \in 0..(resolution - 1) |-> [j \in 0..(resolution - 1) |->
                LET nx == j * frequency
                    ny == i * frequency
                    noiseValue == (Sin(nx) * Cos((ny * 7) \div 10)) \div FP
                                  + ((Sin((nx * 23) \div 10) * Cos((ny * 15) \div 10)) \div FP)
                                        \div 2
                IN  d[i][j] + (noiseValue * amplitude) \div FP]],
            resolution)

\* the cells <<z, x>> the two loops of addDune visit
addDuneCells(dune, resolution) ==
    Upto(Max(0, dune.centerZ - dune.radius), Min(resolution, dune.centerZ + dune.radius))
        \X Upto(Max(0, dune.centerX - dune.radius), Min(resolution, dune.centerX + dune.radius))

\* the elliptical distance of cell (z, x) from the centre of the dune
addDuneDistance(dune, z, x) ==
    LET dx == x - dune.centerX
        dz == z - dune.centerZ
        rotatedX == dx * CosPi(dune.orientation) - dz * SinPi(dune.orientation)
        rotatedZ == dx * SinPi(dune.orientation) + dz * CosPi(dune.orientation)
        scaledX == (rotatedX * FP) \div dune.elongation
    IN  ISqrt(scaledX * scaledX + rotatedZ * rotatedZ)

\* addDune(data, centerX, centerZ, radius, height, resolution); the record
\* dune holds the four parameters and the two values addDune draws
addDune(d, dune, resolution) ==
    Filled2([z \in DOMAIN d |-> [x \in DOMAIN d[z] |->
                IF /\ <<z, x>> \in addDuneCells(dune, resolution)
                   /\ addDuneDistance(dune, z, x) < dune.radius * FP
                THEN LET falloff == FP - addDuneDistance(dune, z, x) \div dune.radius
                         duneHeight == (dune.height * ((falloff * falloff) \div FP)) \div FP
                     IN  d[z][x] + duneHeight
                ELSE d[z][x]]],
            resolution)

\* the dune of pass i (from 0) of the loop of generateTerrainData: four
\* draws there, then the two of addDune
TerrainDune(i, rnd, resolution) ==
    LET k == DrawsPerDune * i
    IN  [centerX |-> (rnd[k + 1] * resolution) \div FP,
         centerZ |-> (rnd[k + 2] * resolution) \div FP,
         radius |-> (rnd[k + 3] * 30) \div FP + 10,
         height |-> rnd[k + 4] * 4 + FP,
         orientation |-> rnd[k + 5],
         elongation |-> FP + rnd[k + 6] * 2]

\* the dune loop of generateTerrainData from pass i on; acc is the record of
\* the stamps made
RECURSIVE GenerateDunes(_, _, _, _, _)
GenerateDunes(d, i, rnd, resolution, acc) ==
    IF i >= terrainDunes THEN [data |-> d, stamps |-> acc]
    ELSE LET dune == TerrainDune(i, rnd, resolution)
             after == addDune(d, dune, resolution)
         IN  GenerateDunes(after, i + 1, rnd, resolution,
                           Append(acc, [dune |-> dune, resolution |-> resolution,
                                        before |-> d, after |-> after]))

\* generateTerrainData(resolution)
generateTerrainData(resolution, rnd) ==
    LET zeros == [i \in 0..(resolution - 1) |-> [j \in 0..(resolution - 1) |-> 0]]
        large == addNoiseLayer(zeros, resolution, 5 * FP, 30)
        medium == addNoiseLayer(large, resolution, 2 * FP, 100)
        small == addNoiseLayer(medium, resolution, FP \div 2, 300)
    IN  GenerateDunes(small, 0, rnd, resolution, <<>>)

\* the streams of Math.random() results the runs of generateTerrainData draw
\* from: those of the other generator and one whose every result is 0.9
TerrainStreams == RandomStreams \cup {Stream(900, 0)}

\* generateTerrainData(heightfieldResolution) under each stream, computed once
TerrainDataRuns == TableOn([rnd \in TerrainStreams |->
                               generateTerrainData(heightfieldResolution, rnd)],
                           TerrainStreams)

\* the number of passes of the dune loop of each generator in the source
SourceDuneCounts == [addDesertDunes |-> 30, generateTerrainData |-> 20]

\* const heightData = generateTerrainData(heightfieldResolution)
GenerateTerrainData(rnd) ==
    /\ data' = Val(TerrainDataRuns[rnd].data)
    /\ stamps' = TerrainDataRuns[rnd].stamps
    /\ result' = [op |-> "generateTerrainData"]
    /\ UNCHANGED <<collisionVars, terrainVars, noiseVars, sceneVars, appVars>>

\* a call addDune(data, centerX, centerZ, radius, height, resolution) on the
\* generated grid; draws are the two Math.random() results addDune takes
AddDune(centerX, centerZ, radius, height, draws) ==
    /\ data # Undefined
    /\ Len(stamps) < terrainDunes + MaxStamps
    /\ LET dune == [centerX |-> centerX, centerZ |-> centerZ,
                    radius |-> radius, height |-> height,
                    orientation |-> draws[1],
                    elongation |-> FP + draws[2] * 2]
           after == addDune(data.v, dune, heightfieldResolution)
       IN  /\ data' = Val(after)
           /\ stamps' = Append(stamps, [dune |-> dune, resolution |-> heightfieldResolution,
                                        before |-> data.v, after |-> after])
    /\ result' = [op |-> "addDune"]
    /\ UNCHANGED <<collisionVars, terrainVars, noiseVars, sceneVars, appVars>>

----------------------------------------------------------------------------
(* terrain.js: the scatter of rocks, rock clusters and plants over the     *)
(* generated grid.  Positions, scales and offsets are fixed point, in 1/FP. *)
(* One action is one pass of a loop; d holds the Math.random() results the  *)
(* pass draws (those for the choice of geometry, material and rotation are  *)
(* left out).                                                               *)

terrainWidth == 200
terrainLength == 200

\* Math.random() * extent - extent / 2
RandomPosition(r, extent) == r * extent - (extent * FP) \div 2

\* Math.floor((pos + extent / 2) * (resolution - 1) / extent)
GridIndex(pos, extent, resolution) ==
    ((pos + (extent * FP) \div 2) * (resolution - 1)) \div (extent * FP)

\* gridX >= 0 && gridX < resolution && gridZ >= 0 && gridZ < resolution
InGrid(gridX, gridZ, resolution) ==
    gridX >= 0 /\ gridX < resolution /\ gridZ >= 0 /\ gridZ < resolution

\* heightData[gridZ][gridX] for the cell over which (x, z) lies, Undefined
\* when there is no such cell
CellHeight(d, x, z, resolution) ==
    LET gridX == GridIndex(x, terrainWidth, resolution)
        gridZ == GridIndex(z, terrainLength, resolution)
    IN  IF InGrid(gridX, gridZ, resolution) THEN Val(d[gridZ][gridX]) ELSE Undefined

\* the rock of one pass of the first loop of addRocksWithPhysics
SingleRock(d, draws, resolution) ==
    LET posX == RandomPosition(draws.x, terrainWidth)
        posZ == RandomPosition(draws.z, terrainLength)
        height == CellHeight(d, posX, posZ, resolution)
        scale == (draws.scale * 15) \div 10 + (8 * FP) \div 10
    IN  IF height = Undefined THEN <<>>
        ELSE <<[kind |-> "rock", x |-> posX, y |-> height.v + scale \div 2, z |-> posZ,
                scale |-> scale, extent |-> terrainWidth, ground |-> height]>>

\* the member rocks of one pass of the cluster loop of addRocksWithPhysics
ClusterRocks(d, draws, resolution) ==
    LET centerX == RandomPosition(draws.x, terrainWidth)
        centerZ == RandomPosition(draws.z, terrainLength)
        height == CellHeight(d, centerX, centerZ, resolution)
        rocksInCluster == (draws.count * 5) \div FP + 3
    IN  IF height = Undefined THEN <<>>
        ELSE [j \in 1..rocksInCluster |->
                LET angle == (draws.members[j].angle * 2 * PiFP) \div FP
                    distance == draws.members[j].distance * 3 + FP
                    offsetX == (Cos(angle) * distance) \div FP
                    offsetZ == (Sin(angle) * distance) \div FP
                    scale == draws.members[j].scale * 2 + FP
                IN  [kind |-> "clusterRock",
                     x |-> centerX + offsetX, y |-> height.v + scale \div 2,
                     z |-> centerZ + offsetZ,
                     scale |-> scale, extent |-> terrainWidth,
                     distance |-> distance,
                     anchor |-> [x |-> centerX, z |-> centerZ],
                     ground |-> CellHeight(d, centerX + offsetX, centerZ + offsetZ,
                                           resolution)]]

\* the plant of one pass of the loop of addDesertPlants
Plant(d, draws, resolution) ==
    LET posX == RandomPosition(draws.x, terrainWidth)
        posZ == RandomPosition(draws.z, terrainLength)
        height == CellHeight(d, posX, posZ, resolution)
        scale == FP \div 2 + draws.scale \div 2
    IN  IF height = Undefined THEN <<>>
        ELSE <<[kind |-> "plant", x |-> posX, y |-> height.v, z |-> posZ,
                scale |-> scale, extent |-> terrainWidth, ground |-> height]>>

\* one pass of a loop of addEnvironmentObjects(scene, heightData, width,
\* length) on the generated grid; objects are the meshes the pass adds
Scatter(op, objects) ==
    /\ data # Undefined
    /\ Len(placed) < MaxPlaced
    /\ placed' = placed \o objects
    /\ result' = [op |-> op, objects |-> objects]
    /\ UNCHANGED <<collisionVars, terrainVars, noiseVars, dataVars, appVars>>

AddRock(draws) ==
    Scatter("addRocksWithPhysics: rock", SingleRock(data.v, draws, heightfieldResolution))
AddRockCluster(draws) ==
    Scatter("addRocksWithPhysics: cluster", ClusterRocks(data.v, draws, heightfieldResolution))
AddDesertPlant(draws) ==
    Scatter("addDesertPlants", Plant(data.v, draws, heightfieldResolution))

----------------------------------------------------------------------------
(* EnvironmentSystem.createRocks: one pass of its loop.  World coordinates  *)
(* are whole units, as everywhere in the collision system: the draws of the *)
(* model are such that the products below are whole.                        *)

\* a || b
OrElse(a, b) == IF IsNaN(a) \/ a = Zero THEN b ELSE a

\* the rock of one pass: its position, its scale (in 1/FP) and the bounding
\* radius Math.max(rock.scale.x, rock.scale.z) * 0.8
EnvironmentRock(draws) ==
    LET angle == (draws.angle * 2 * PiFP) \div FP
        radius == 20 + (draws.radius * 400) \div FP
        x == (Cos(angle) * radius) \div FP
        z == (Sin(angle) * radius) \div FP
        collisionHeight == getHeightAt(heightData, terrainSize, x, z).value
        y == OrElse(OrElse(collisionHeight, TerrainGetHeightAt(tHeightData, x, z).value),
                    Zero)
        scale == draws.scale * 3 + FP
        scaleX == (scale * ((8 * FP) \div 10 + (draws.scaleX * 4) \div 10)) \div FP
        scaleZ == (scale * ((8 * FP) \div 10 + (draws.scaleZ * 4) \div 10)) \div FP
    IN  [position |-> [x |-> x, y |-> y, z |-> z],
         scale |-> [x |-> scaleX, z |-> scaleZ],
         boundingRadius |-> Val((Max(scaleX, scaleZ) * 8) \div (10 * FP)),
         collisionHeight |-> collisionHeight]

\* one pass of the loop of createRocks, with collisionSystem the
\* CollisionSystem module
CreateRock(draws) ==
    /\ Len(placed) < MaxPlaced
    /\ Len(collisionObjects) < MaxObjects
    /\ LET rock == EnvironmentRock(draws)
           id == Len(collisionObjects) + 1
           collisionData == [object |-> id,
                             position |-> rock.position,
                             radius |-> RadiusOf(rock, rock.boundingRadius)]
       IN  /\ collisionObjects' = Append(collisionObjects, collisionData)
           /\ collisionGrid' = addToGrid(collisionGrid, collisionData, terrainSize)
           /\ meshes' = Append(meshes, [position |-> rock.position, added |-> rock.position])
           /\ addedBeforeInit' = IF terrainSize = Undefined
                                 THEN addedBeforeInit \cup {id}
                                 ELSE addedBeforeInit
           /\ placed' = Append(placed, [kind |-> "createRocks",
                                        x |-> rock.position.x * FP, y |-> rock.position.y,
                                        z |-> rock.position.z * FP,
                                        extent |-> TerrainSystem_terrainSize,
                                        collisionHeight |-> rock.collisionHeight,
                                        obstacle |-> id])
           /\ result' = [op |-> "createRocks", ret |-> collisionData]
    /\ UNCHANGED <<terrainSize, heightData>>
    /\ UNCHANGED <<terrainVars, noiseVars, dataVars, appVars>>

----------------------------------------------------------------------------
(* Engine: asset progress; AssetManager: texture, material and model loads. *)
(* A load handed to a THREE loader stays in pending until the loader        *)
(* completes it, with its onLoad or its onError callback, in any order.     *)

\* Math.min(Math.round(progress * 100), 100) for progress = loaded / total
Percent(loaded, total) == Min((200 * loaded + total) \div (2 * total), 100)

\* Engine.trackAssetLoading(numAssets) on the engine counters e
trackAssetLoading(e, numAssets) ==
    [e EXCEPT !.totalAssets = @ + numAssets, !.percent = Val(0)]

\* Engine.assetLoaded()
assetLoaded(e) ==
    [e EXCEPT !.assetsLoaded = @ + 1,
              !.percent = Val(Percent(e.assetsLoaded + 1, e.totalAssets))]

\* AssetManager.loadTexture(path) on am, the engine counters, the texture
\* cache and the loads in flight
loadTexture(am, path) ==
    IF path \in am.textureCache THEN am
    ELSE [am EXCEPT !.engine = trackAssetLoading(@, 1),
                    !.pending = Append(@, [kind |-> "texture", path |-> path])]

\* the five texture files of a PBR material, in the order they are loaded
PBRFiles(name) ==
    <<[name |-> name, file |-> "basecolor"], [name |-> name, file |-> "normal"],
      [name |-> name, file |-> "roughness"], [name |-> name, file |-> "ao"],
      [name |-> name, file |-> "height"]>>

\* the loadTexture calls of loadPBRMaterial from file k on
RECURSIVE LoadFiles(_, _, _)
LoadFiles(am, files, k) ==
    IF k > Len(files) THEN am ELSE LoadFiles(loadTexture(am, files[k]), files, k + 1)

\* AssetManager.loadPBRMaterial(name, options) for a material not cached
loadPBRMaterial(am, name) ==
    LoadFiles([am EXCEPT !.engine = trackAssetLoading(@, 5)], PBRFiles(name), 1)

\* the engine counters as a record, and the state loadTexture works on
EngineNow == [assetsLoaded |-> assetsLoaded, totalAssets |-> totalAssets, percent |-> percent]
ManagerNow == [engine |-> EngineNow, textureCache |-> textureCache, pending |-> pending]

\* the engine counters become those of e
EngineBecomes(e) ==
    /\ assetsLoaded' = e.assetsLoaded
    /\ totalAssets' = e.totalAssets
    /\ percent' = e.percent

\* AssetManager.loadTexture(path, onLoad, onError)
LoadTexture(path) ==
    /\ totalAssets < MaxAssets
    /\ LET am == loadTexture(ManagerNow, path)
       IN  EngineBecomes(am.engine) /\ pending' = am.pending
    /\ result' = [op |-> "loadTexture", path |-> path, cached |-> path \in textureCache]
    /\ UNCHANGED <<cacheVars>>
    /\ UNCHANGED <<collisionVars, terrainVars, noiseVars, dataVars, sceneVars, characterVars>>

\* AssetManager.loadPBRMaterial(name, options)
LoadPBRMaterial(name) ==
    /\ totalAssets < MaxAssets
    /\ IF name \in materialCache
       THEN UNCHANGED <<engineVars, materialCache, pending>>
       ELSE LET am == loadPBRMaterial(ManagerNow, name)
            IN  /\ EngineBecomes(am.engine)
                /\ pending' = am.pending
                /\ materialCache' = materialCache \cup {name}
    /\ result' = [op |-> "loadPBRMaterial", name |-> name, cached |-> name \in materialCache]
    /\ UNCHANGED <<textureCache, modelCache>>
    /\ UNCHANGED <<collisionVars, terrainVars, noiseVars, dataVars, sceneVars, characterVars>>

\* AssetManager.loadModel(path, onLoad, onProgress, onError)
LoadModel(path) ==
    /\ totalAssets < MaxAssets
    /\ IF path \in modelCache
       THEN UNCHANGED <<engineVars, pending>>
       ELSE /\ EngineBecomes(trackAssetLoading(EngineNow, 1))
            /\ pending' = Append(pending, [kind |-> "model", path |-> path])
    /\ result' = [op |-> "loadModel", path |-> path, cached |-> path \in modelCache]
    /\ UNCHANGED <<cacheVars>>
    /\ UNCHANGED <<collisionVars, terrainVars, noiseVars, dataVars, sceneVars, characterVars>>

\* s without its i-th entry
Without(s, i) == SubSeq(s, 1, i - 1) \o SubSeq(s, i + 1, Len(s))

\* the loader completes load i: its onLoad callback when ok, its onError
\* callback otherwise
LoadCompleted(i, ok) ==
    /\ i \in 1..Len(pending)
    /\ pending' = Without(pending, i)
    /\ EngineBecomes(assetLoaded(EngineNow))
    /\ textureCache' = IF ok /\ pending[i].kind = "texture"
                       THEN textureCache \cup {pending[i].path} ELSE textureCache
    /\ modelCache' = IF ok /\ pending[i].kind = "model"
                     THEN modelCache \cup {pending[i].path} ELSE modelCache
    /\ result' = [op |-> "loadCompleted", load |-> pending[i], ok |-> ok]
    /\ UNCHANGED materialCache
    /\ UNCHANGED <<collisionVars, terrainVars, noiseVars, dataVars, sceneVars, characterVars>>

\* AssetManager.clearCaches()
ClearCaches ==
    /\ textureCache' = {}
    /\ materialCache' = {}
    /\ modelCache' = {}
    /\ result' = [op |-> "clearCaches"]
    /\ UNCHANGED <<engineVars, pending>>
    /\ UNCHANGED <<collisionVars, terrainVars, noiseVars, dataVars, sceneVars, characterVars>>

----------------------------------------------------------------------------
(* character.js and main.js: the character, its three animation loads, the  *)
(* keys and the frame update.  One GLTFLoader load is in flight at a time;  *)
(* the loader ends it with its onLoad or its onError callback.  Positions   *)
(* are fixed point, in 1/FP; rotation is in steps of turnSpeed.  The        *)
(* footprint, particle and lighting updates of a frame are left out.        *)

Null == [null |-> TRUE]

\* mixer.clipAction(gltf.animations[0]) when the file has animations
ClipAction(clip, hasAnimations) == IF hasAnimations THEN [clip |-> clip] ELSE Null

\* a value is truthy
Truthy(a) == a # Undefined /\ a # Null

\* the load that a closure of loadCharacter starts when the load of a stage
\* succeeds without starting the run load: the callback is made after walk
NextStage_CallbackAfterWalk(stage) ==
    CASE stage = "idle" -> "walk"
      [] stage = "walk" -> "done"
      [] stage = "run" -> "done"

\* what follows the success of the load of a stage: the next load, or the
\* callback ("done")
NextStage(stage) ==
    CASE stage = "idle" -> "walk"
      [] stage = "walk" -> "run"
      [] stage = "run" -> "done"

\* loadCharacterSafely(): loadCharacter(scene, callback) starts the idle load
LoadCharacterSafely ==
    /\ loading.stage = "none"
    /\ loading' = [stage |-> "idle"]
    /\ loadLog' = Append(loadLog, [event |-> "start", file |-> "idle"])
    /\ UNCHANGED <<callbacks, character, mixer, actionVars, keys, camera, restarts, frames>>
    /\ UNCHANGED <<collisionVars, terrainVars, noiseVars, dataVars, sceneVars, assetVars, result>>

\* the onError callback of the load in flight
LoadFails ==
    /\ loading.stage \in {"idle", "walk", "run"}
    /\ loading' = [loading EXCEPT !.stage = "failed"]
    /\ loadLog' = Append(loadLog, [event |-> "error", file |-> loading.stage])
    /\ UNCHANGED <<callbacks, character, mixer, actionVars, keys, camera, restarts, frames>>
    /\ UNCHANGED <<collisionVars, terrainVars, noiseVars, dataVars, sceneVars, assetVars, result>>

\* the locals of the closures after the load of loading.stage succeeded
Loaded(hasAnimations) ==
    CASE loading.stage = "idle" ->
            [character |-> [rotation |-> 0, x |-> 0, z |-> 0],
             mixer |-> [time |-> 0],
             idle |-> ClipAction("idle", hasAnimations)]
      [] loading.stage = "walk" ->
            [character |-> loading.character, mixer |-> loading.mixer, idle |-> loading.idle,
             walk |-> ClipAction("walk", hasAnimations)]
      [] loading.stage = "run" ->
            [character |-> loading.character, mixer |-> loading.mixer, idle |-> loading.idle,
             walk |-> loading.walk, run |-> ClipAction("run", hasAnimations)]

\* the onLoad callback of the load in flight; when the next stage is
\* "done" it calls the callback of main.js, which sets the globals
LoadSucceeds(hasAnimations) ==
    /\ loading.stage \in {"idle", "walk", "run"}
    /\ LET locals == Loaded(hasAnimations)
           next == NextStage(loading.stage)
       IN  /\ loading' = [stage |-> next] @@ locals
           /\ loadLog' = Append(loadLog, [event |-> "ok", file |-> loading.stage])
                             \o (IF next = "done" THEN <<>>
                                 ELSE <<[event |-> "start", file |-> next]>>)
           /\ IF next = "done"
              THEN /\ callbacks' = callbacks + 1
                   /\ character' = locals.character
                   /\ mixer' = locals.mixer
                   /\ idleAction' = locals.idle
                   /\ walkAction' = IF "walk" \in DOMAIN locals THEN locals.walk ELSE Undefined
                   /\ runAction' = IF "run" \in DOMAIN locals THEN locals.run ELSE Undefined
                   /\ currentAction' = locals.idle
              ELSE UNCHANGED <<callbacks, character, mixer, actionVars>>
    /\ UNCHANGED <<keys, camera, restarts, frames>>
    /\ UNCHANGED <<collisionVars, terrainVars, noiseVars, dataVars, sceneVars, assetVars, result>>

\* the keydown and keyup listeners of setupControls, for a key they handle
KeyEvent(key, down) ==
    /\ keys' = [keys EXCEPT ![key] = down]
    /\ UNCHANGED <<loaderVars, character, mixer, actionVars, camera, restarts, frames>>
    /\ UNCHANGED <<collisionVars, terrainVars, noiseVars, dataVars, sceneVars, assetVars, result>>

moveSpeed == FP \div 10
runSpeed == (2 * FP) \div 10
turnSpeed == (5 * FP) \div 100

\* Math.sin and Math.cos of a rotation of either sign, in 1/FP radians
SinOf(x) == IF x >= 0 THEN Sin(x) ELSE -Sin(-x)
CosOf(x) == IF x >= 0 THEN Cos(x) ELSE Cos(-x)

\* setAction that restarts the action it is given even when it is playing
setAction_AlwaysRestarts(st, newAction) ==
    [currentAction |-> newAction,
     restarts |-> [st.restarts EXCEPT ![newAction.clip] = @ + 1]]

\* setAction(newAction) on st, the current action and the reset() counts
setAction(st, newAction) ==
    IF st.currentAction = newAction THEN st
    ELSE [currentAction |-> newAction,
          restarts |-> [st.restarts EXCEPT ![newAction.clip] = @ + 1]]

\* the character after the rotation and movement part of updateCharacter
Moved(c, k) ==
    LET rotation == c.rotation + (IF k.left THEN 1 ELSE 0) - (IF k.right THEN 1 ELSE 0)
        isMoving == k.forward \/ k.backward \/ k.left \/ k.right
        isRunning == isMoving /\ k.shift
        speed == IF isRunning THEN runSpeed ELSE moveSpeed
        direction == IF k.forward THEN 1 ELSE -1
        moveZ == (CosOf(rotation * turnSpeed) * speed * direction) \div FP
        moveX == (SinOf(rotation * turnSpeed) * speed * direction) \div FP
    IN  IF k.forward \/ k.backward
        THEN [rotation |-> rotation, x |-> c.x + moveX, z |-> c.z + moveZ]
        ELSE [c EXCEPT !.rotation = rotation]

\* the animation part of updateCharacter
Animated(st, k) ==
    LET isMoving == k.forward \/ k.backward \/ k.left \/ k.right
        isRunning == isMoving /\ k.shift
    IN  IF isMoving
        THEN IF isRunning /\ Truthy(runAction) THEN setAction(st, runAction)
             ELSE IF Truthy(walkAction) THEN setAction(st, walkAction)
             ELSE st
        ELSE IF Truthy(idleAction) THEN setAction(st, idleAction)
        ELSE st

\* updateCamera() for character c: the camera moves a tenth of the way to
\* its place behind the character and looks at the character
Followed(cam, c) ==
    LET targetX == c.x + SinOf(c.rotation * turnSpeed) * (-5)
        targetZ == c.z + CosOf(c.rotation * turnSpeed) * (-5)
    IN  [x |-> cam.x + (targetX - cam.x) \div 10,
         z |-> cam.z + (targetZ - cam.z) \div 10,
         lookAt |-> [x |-> c.x, z |-> c.z]]

\* a frame of animate(): updateCharacter(deltaTime), then updateCamera()
Animate ==
    /\ frames < MaxFrames
    /\ frames' = frames + 1
    /\ IF ~Truthy(character) \/ ~Truthy(mixer)
       THEN UNCHANGED <<character, mixer, currentAction, restarts>>
       ELSE LET st == Animated([currentAction |-> currentAction, restarts |-> restarts], keys)
            IN  /\ mixer' = [mixer EXCEPT !.time = @ + 1]
                /\ character' = Moved(character, keys)
                /\ currentAction' = st.currentAction
                /\ restarts' = st.restarts
    /\ camera' = IF ~Truthy(character) THEN camera ELSE Followed(camera, character')
    /\ UNCHANGED <<loaderVars, idleAction, walkAction, runAction, keys>>
    /\ UNCHANGED <<collisionVars, terrainVars, noiseVars, dataVars, sceneVars, assetVars, result>>

----------------------------------------------------------------------------
(* Inputs *)

GridSizes == 2..MaxRes

\* a height grid with a different value in every cell: 0.1, 0.2, ...
Ramp(n) == [i \in 0..(n - 1) |-> [j \in 0..(n - 1) |-> Num(1 + i * n + j, 10)]]

TerrainDatas == {[heightData |-> Ramp(n), terrainSize |-> TerrainSystem_terrainSize] :
                    n \in GridSizes}

ObjectXs == {-14, 0}
ObjectZs == {0}
ObjectScales == {[x |-> 2, z |-> 4]}
BoundingRadii == {Undefined, Val(6), Val(-11)}

\* the mesh a caller passes to its k-th addCollisionObject call
Objects(k) == {[id |-> k, position |-> [x |-> px, y |-> 0, z |-> pz], scale |-> sc] :
                  px \in ObjectXs, pz \in ObjectZs, sc \in ObjectScales}

QueryPositions == {[x |-> px, y |-> 0, z |-> pz] : px \in {-5, 0, 25}, pz \in {0, 3}}
                      \cup {[x |-> 501, y |-> 0, z |-> 0]}
QueryRadii == {1, 30}
HeightXs == {-501, 0, 250, 500}
HeightZs == {-500, 500, 501}

----------------------------------------------------------------------------
(* The collision system on its own *)

Init ==
    /\ terrainSize = Undefined
    /\ heightData = Undefined
    /\ collisionObjects = <<>>
    /\ collisionGrid = <<>>
    /\ result = [op |-> "none"]
    /\ addedBeforeInit = {}
    /\ tHeightData = Undefined
    /\ terrain = Undefined
    /\ generated = <<>>
    /\ noise = <<>>
    /\ samples = <<>>
    /\ data = Undefined
    /\ stamps = <<>>
    /\ meshes = <<>>
    /\ placed = <<>>
    /\ assetsLoaded = 0
    /\ totalAssets = 0
    /\ percent = Undefined
    /\ textureCache = {}
    /\ materialCache = {}
    /\ modelCache = {}
    /\ pending = <<>>
    /\ loading = [stage |-> "none"]
    /\ loadLog = <<>>
    /\ callbacks = 0
    /\ character = Undefined
    /\ mixer = Undefined
    /\ idleAction = Undefined
    /\ walkAction = Undefined
    /\ runAction = Undefined
    /\ currentAction = Undefined
    /\ keys = [forward |-> FALSE, backward |-> FALSE, left |-> FALSE, right |-> FALSE,
               shift |-> FALSE]
    /\ camera = [x |-> 0, z |-> -5 * FP, lookAt |-> Undefined]
    /\ restarts = [clip \in {"idle", "walk", "run"} |-> 0]
    /\ frames = 0

Next ==
    \/ \E td \in TerrainDatas : CInit(td)
    \/ \E o \in Objects(Len(collisionObjects) + 1), br \in BoundingRadii :
          AddCollisionObject(o, br)
    \/ \E p \in QueryPositions, r \in QueryRadii : CheckCollision(p, r)
    \/ \E x \in {0, 501}, z \in {0, 501} : GetHeightAt(x, z)

Spec == Init /\ [][Next]_vars

----------------------------------------------------------------------------
(* The noise generator on its own *)

Instances == {1, 2}
Seeds == {1, 20, -8 * SeedDen}      \* 1/8, 2.5, -8
NoiseXs == {-833, 417}
NoiseYs == {0, 1250}

NextNoise ==
    \/ \E k \in Instances, sd \in Seeds : Construct(k, sd)
    \/ \E k \in Instances, x \in NoiseXs, y \in NoiseYs : Noise2D(k, x, y)

SpecNoise == Init /\ [][NextNoise]_vars

----------------------------------------------------------------------------
(* Terrain generation and the two height queries *)

NextHeight ==
    \/ \E sd \in WorldSeeds, rnd \in RandomStreams : TInit(sd, rnd)
    \/ CInitFromTerrain
    \/ \E td \in TerrainDatas : CInit(td)
    \/ \E x \in HeightXs, z \in HeightZs : GetHeightAt(x, z)
    \/ \E x \in HeightXs, z \in HeightZs : TGetHeightAt(x, z)

SpecHeight == Init /\ [][NextHeight]_vars

----------------------------------------------------------------------------
(* The dune stamping of terrain.js *)

DuneCenterXs == {1, 4}
DuneCenterZs == {0, 2}
DuneRadii == {2, 12}
DuneHeights == {FP}
DuneDraws == {<<0, 0>>, <<250, 999>>}

NextDune ==
    \/ \E rnd \in TerrainStreams : GenerateTerrainData(rnd)
    \/ \E cx \in DuneCenterXs, cz \in DuneCenterZs, r \in DuneRadii,
          h \in DuneHeights, draws \in DuneDraws : AddDune(cx, cz, r, h, draws)

SpecDune == Init /\ [][NextDune]_vars

----------------------------------------------------------------------------
(* Obstacles whose mesh moves after it was added *)

MoveTargets == {[x |-> 40, y |-> 0, z |-> 0]}
MoveRadii == {Val(6)}
MoveQueries == {[x |-> -5, y |-> 0, z |-> 0], [x |-> 40, y |-> 0, z |-> 3]}

NextMove ==
    \/ \E td \in TerrainDatas : CInit(td)
    \/ \E o \in Objects(Len(collisionObjects) + 1), br \in MoveRadii :
          AddCollisionObject(o, br)
    \/ \E id \in 1..MaxObjects, to \in MoveTargets : MovePosition(id, to)
    \/ \E p \in MoveQueries, r \in QueryRadii : CheckCollision(p, r)

SpecMove == Init /\ [][NextMove]_vars

----------------------------------------------------------------------------
(* The scatter of obstacles over the generated terrains *)

\* the draws of the members of a cluster: a, a + b, ... for the angles
MemberDraws(a, b, dist, sc) ==
    [j \in 1..7 |-> [angle |-> (a + (j - 1) * b) % FP, distance |-> dist, scale |-> sc]]

RockDraws == {[x |-> rx, z |-> 0, scale |-> 500] : rx \in {0, 500, 999}}
ClusterDraws == {[x |-> rx, z |-> 500, count |-> c, members |-> MemberDraws(0, 500, dist, 0)] :
                    rx \in {0, 199, 999}, c \in {0, 999}, dist \in {0, 999}}
PlantDraws == {[x |-> rx, z |-> 999, scale |-> 0] : rx \in {0, 999}}
EnvironmentDraws == {[angle |-> a, radius |-> r, scale |-> 500, scaleX |-> 500, scaleZ |-> 500] :
                        a \in {0, 250, 500}, r \in {0, 250, 999}}
ScatterSeed == 7

NextScatter ==
    \/ \E rnd \in TerrainStreams : data = Undefined /\ GenerateTerrainData(rnd)
    \/ \E draws \in RockDraws : AddRock(draws)
    \/ \E draws \in ClusterDraws : AddRockCluster(draws)
    \/ \E draws \in PlantDraws : AddDesertPlant(draws)
    \/ \E rnd \in RandomStreams : tHeightData = Undefined /\ TInit(ScatterSeed, rnd)
    \/ CInitFromTerrain
    \/ \E draws \in EnvironmentDraws : CreateRock(draws)

SpecScatter == Init /\ [][NextScatter]_vars

----------------------------------------------------------------------------
(* Asset loading *)

TexturePaths == {[name |-> "sand", file |-> "basecolor"], [name |-> "rock", file |-> "basecolor"]}
MaterialNames == {"sand"}
ModelPaths == {[name |-> "character", file |-> "glb"]}

NextAssets ==
    \/ \E path \in TexturePaths : LoadTexture(path)
    \/ \E name \in MaterialNames : LoadPBRMaterial(name)
    \/ \E path \in ModelPaths : LoadModel(path)
    \/ \E i \in 1..(2 * MaxAssets + 5), ok \in BOOLEAN : LoadCompleted(i, ok)
    \/ ClearCaches

SpecAssets == Init /\ [][NextAssets]_vars

----------------------------------------------------------------------------
(* The character: loading, keys and frames *)

KeyNames == {"forward", "backward", "left", "right", "shift"}

NextCharacter ==
    \/ LoadCharacterSafely
    \/ \E hasAnimations \in BOOLEAN : LoadSucceeds(hasAnimations)
    \/ LoadFails
    \/ \E key \in KeyNames, down \in BOOLEAN : KeyEvent(key, down)
    \/ Animate

SpecCharacter == Init /\ [][NextCharacter]_vars

----------------------------------------------------------------------------
(* Properties *)

\* the obstacle a colliding result reports: ids are positions in collisionObjects
HitObstacle == collisionObjects[result.ret.object]

\* the obstacles whose circle the query circle overlaps, by a scan of all
Overlapping(position, radius) ==
    {k \in 1..Len(collisionObjects) :
        LET dx == position.x - collisionObjects[k].position.x
            dz == position.z - collisionObjects[k].position.z
            reach == radius + collisionObjects[k].radius
        IN  reach > 0 /\ dx * dx + dz * dz < reach * reach}

IsQuery == result.op = "checkCollision"
IsHit == IsQuery /\ result.ret.collision

\* C1: after init and any addCollisionObject calls (all of them after init,
\* all with a positive radius), checkCollision(position, radius) reports a
\* collision if and only if some added obstacle is at horizontal distance
\* less than radius + its radius.
C1_CollisionIffOverlap ==
    (/\ IsQuery
     /\ terrainSize # Undefined
     /\ addedBeforeInit = {}
     /\ \A k \in 1..Len(collisionObjects) : collisionObjects[k].radius > 0)
    => (result.ret.collision <=> Overlapping(result.position, result.radius) # {})

\* C2: once the system is initialised, every added obstacle O is among the
\* candidates getNearbyObjects builds for the cell of every point P at
\* horizontal distance less than O.radius from O's stored position.
C2_IndexComplete ==
    terrainSize # Undefined =>
        \A k \in 1..Len(collisionObjects), P \in QueryPositions :
            LET O == collisionObjects[k]
                dx == P.x - O.position.x
                dz == P.z - O.position.z
            IN  (O.radius > 0 /\ dx * dx + dz * dz < O.radius * O.radius)
                => O \in SeqToSet(getNearbyObjects(collisionGrid,
                                                   CellOf(P.x, terrainSize),
                                                   CellOf(P.z, terrainSize)))

\* C3: in every state reached by init and addCollisionObject calls in any
\* order, every obstacle of collisionObjects (of positive radius) is in at
\* least one bucket of collisionGrid.
C3_RegisteredSomewhere ==
    \A k \in 1..Len(collisionObjects) :
        collisionObjects[k].radius > 0 =>
            \E key \in DOMAIN collisionGrid :
                collisionObjects[k] \in SeqToSet(collisionGrid[key])

\* a coordinate whose normalized value (c + size/2) / size is below 0 or above 1
OutOfRange(c, size) == 2 * c < -size \/ 2 * c > size

\* C4: both getHeightAt functions return 0 and read no heightData cell for
\* a point whose normalized coordinate is below 0 or above 1 on either axis,
\* and for any point while heightData is not set.
C4_DefaultOutside ==
    /\ result.op = "getHeightAt" =>
          ((heightData = Undefined
            \/ OutOfRange(result.x, terrainSize.v) \/ OutOfRange(result.z, terrainSize.v))
           => (result.ret = Zero /\ result.reads = {}))
    /\ result.op = "TerrainSystem.getHeightAt" =>
          ((tHeightData = Undefined
            \/ OutOfRange(result.x, TerrainSystem_terrainSize)
            \/ OutOfRange(result.z, TerrainSystem_terrainSize))
           => (result.ret = Zero /\ result.reads = {}))

C4_Witness ==
    /\ result.op = "getHeightAt"
    /\ heightData # Undefined
    /\ ~OutOfRange(result.x, terrainSize.v)
    /\ result.z = 501

\* the world coordinate c is that of grid line i of a grid of side n
AtGridLine(c, i, n, size) == (2 * c + size) * (n - 1) = 2 * size * i

\* C5: at the world coordinate of grid vertex (i, j) of an initialised
\* terrain CollisionSystem.getHeightAt returns heightData[i][j] * maxHeight.
C5_ExactAtVertex ==
    (result.op = "getHeightAt" /\ heightData # Undefined) =>
        LET n == Cardinality(DOMAIN heightData.v)
        IN  \A i \in 0..(n - 1), j \in 0..(n - 1) :
                (AtGridLine(result.z, i, n, terrainSize.v)
                 /\ AtGridLine(result.x, j, n, terrainSize.v))
                => result.ret = Mul(heightData.v[i][j], maxHeight)

\* C6: two runs of the heightfield generation for the same seed produce the
\* same grid in every cell.
C6_SameSeedSameGrid ==
    \A a, b \in 1..Len(generated) :
        generated[a].seed = generated[b].seed
        => generated[a].heightData = generated[b].heightData

\* the tables of the instances of the model's seeds, computed once
TablesOf == [sd \in Seeds |-> SimplexNoise(sd)]

\* C7: noise2D returns the same value for the same seed and coordinate,
\* whichever instance is asked and whatever was asked in between, and every
\* instance still holds the tables its seed built.
C7_NoisePure ==
    /\ \A a, b \in 1..Len(samples) :
          (samples[a].seed = samples[b].seed
           /\ samples[a].x = samples[b].x /\ samples[a].y = samples[b].y)
          => samples[a].value = samples[b].value
    /\ \A k \in 1..Len(noise) : noise[k] = TablesOf[noise[k].seed]

C7_Witness ==
    /\ Len(samples) = 3
    /\ samples[1].instance # samples[3].instance
    /\ samples[1].seed = samples[3].seed
    /\ samples[1].x = samples[3].x /\ samples[1].y = samples[3].y
    /\ samples[2].instance = samples[1].instance
    /\ samples[2].x # samples[1].x

\* C8: the normal of a reported collision is a unit vector in the horizontal
\* plane that points from the obstacle to the query position (a fixed unit
\* vector when the two coincide).
C8_UnitNormal ==
    IsHit =>
        LET n == result.ret.normal
            dx == result.position.x - HitObstacle.position.x
            dz == result.position.z - HitObstacle.position.z
        IN  /\ n.y = 0
            /\ n.x * n.x + n.y * n.y + n.z * n.z = n.div2
            /\ (dx # 0 \/ dz # 0) => (n.x = dx /\ n.z = dz)

\* C9: the penetration of a reported collision with O is
\* radius + O.radius - distance to O's stored position, and is not negative.
C9_Penetration ==
    IsHit =>
        LET pen == result.ret.penetration
            dx == result.position.x - HitObstacle.position.x
            dz == result.position.z - HitObstacle.position.z
        IN  /\ pen.sum = result.radius + HitObstacle.radius
            /\ pen.dist2 = dx * dx + dz * dz
            /\ pen.sum >= 0
            /\ pen.sum * pen.sum >= pen.dist2

C9_Witness ==
    /\ IsHit
    /\ result.ret.penetration.dist2 > 0
    /\ result.position.z # HitObstacle.position.z

\* C10: every result of checkCollision, colliding or not, carries the
\* value of getHeightAt at the queried position as terrainY.
C10_TerrainYAlways ==
    IsQuery =>
        result.ret.terrainY
            = getHeightAt(heightData, terrainSize, result.position.x, result.position.z).value

C10_Witness ==
    /\ IsQuery
    /\ ~result.ret.collision
    /\ heightData # Undefined
    /\ Len(collisionObjects) > 0
    /\ result.ret.terrainY # Zero

\* C11: a call of checkCollision or of getHeightAt changes nothing of the
\* system: terrainSize, heightData, the collisionObjects list (every
\* obstacle's stored position and radius) and collisionGrid (its keys and the
\* contents and order of every bucket) are after the call what they were
\* before it.
C11_QueriesReadOnly ==
    [][result'.op \in {"checkCollision", "getHeightAt"}
       => UNCHANGED <<terrainSize, heightData, collisionObjects, collisionGrid>>]_vars

C11_Witness ==
    /\ IsHit
    /\ heightData # Undefined
    /\ Len(collisionObjects) = 2
    /\ Cardinality(DOMAIN collisionGrid) > 4
    /\ result.position.x = -5

\* C12: after any sequence of addCollisionObject calls every obstacle of
\* collisionObjects and of every bucket of collisionGrid has a radius above
\* 0 (a call with a non-positive bounding radius having been rejected).
C12_PositiveRadius ==
    /\ \A k \in 1..Len(collisionObjects) : collisionObjects[k].radius > 0
    /\ \A key \in DOMAIN collisionGrid :
          \A k \in 1..Len(collisionGrid[key]) : collisionGrid[key][k].radius > 0

\* the world coordinate of grid line i of TerrainSystem's grid
VertexCoordinate(c, i) == AtGridLine(c, i, terrainResolution, TerrainSystem_terrainSize)

\* C13: at the world coordinate of every grid vertex (i, j) of the generated
\* terrain, TerrainSystem.getHeightAt and CollisionSystem.getHeightAt (the
\* collision system holding the generated grid) both return the value
\* createTerrainGeometry wrote into the mesh for that vertex,
\* heightData[i][j] * maxHeight.
C13_QueriesMatchMesh ==
    \A i \in 0..(terrainResolution - 1), j \in 0..(terrainResolution - 1) :
        /\ (/\ result.op = "TerrainSystem.getHeightAt"
            /\ tHeightData # Undefined
            /\ VertexCoordinate(result.z, i) /\ VertexCoordinate(result.x, j))
           => (/\ result.ret = terrain.v[VertexIndex(i, j)]
               /\ result.ret = Mul(tHeightData.v[i][j], maxHeight))
        /\ (/\ result.op = "getHeightAt"
            /\ tHeightData # Undefined
            /\ heightData = tHeightData
            /\ terrainSize = Val(TerrainSystem_terrainSize)
            /\ VertexCoordinate(result.z, i) /\ VertexCoordinate(result.x, j))
           => (/\ result.ret = terrain.v[VertexIndex(i, j)]
               /\ result.ret = Mul(heightData.v[i][j], maxHeight))

\* cell c lies between floor((p - r + size/2) / gridSize) and
\* floor((p + r + size/2) / gridSize), both included
CellInRange(c, p, r, size) ==
    /\ 2 * (p - r) + size < 2 * gridSize * (c + 1)
    /\ 2 * gridSize * c <= 2 * (p + r) + size

\* C14: after init, addCollisionObject appends the obstacle record it returns
\* to the bucket of every cell of the obstacle's range on x and on z,
\* creating the bucket when the key is absent, and to no other bucket; every
\* bucket keeps the contents and order it had.
C14_AddToGridRange ==
    [][(result'.op = "addCollisionObject" /\ terrainSize # Undefined) =>
          LET cd == result'.ret
              \* the cells within two cells of the obstacle's square
              Around(p) == ((2 * (p - Abs(cd.radius)) + terrainSize.v) \div (2 * gridSize) - 2)
                              ..((2 * (p + Abs(cd.radius)) + terrainSize.v) \div (2 * gridSize) + 2)
          IN  \A key \in (DOMAIN collisionGrid') \cup (DOMAIN collisionGrid)
                              \cup (Around(cd.position.x) \X Around(cd.position.z)) :
                  IF /\ CellInRange(key[1], cd.position.x, cd.radius, terrainSize.v)
                     /\ CellInRange(key[2], cd.position.z, cd.radius, terrainSize.v)
                  THEN /\ key \in DOMAIN collisionGrid'
                       /\ collisionGrid'[key] = Append(Bucket(collisionGrid, key[1], key[2]), cd)
                  ELSE /\ key \in DOMAIN collisionGrid' <=> key \in DOMAIN collisionGrid
                       /\ key \in DOMAIN collisionGrid
                            => collisionGrid'[key] = collisionGrid[key]]_vars

C14_Witness ==
    /\ result.op = "addCollisionObject"
    /\ terrainSize # Undefined
    /\ addedBeforeInit = {}
    /\ Cardinality({key \in DOMAIN collisionGrid :
                       result.ret \in SeqToSet(collisionGrid[key])}) = 4
    /\ \E key \in DOMAIN collisionGrid :
          Len(collisionGrid[key]) = 2 /\ collisionGrid[key][2] = result.ret
    /\ \E key \in DOMAIN collisionGrid : Len(collisionGrid[key]) = 1

\* the cells probed: those of the query positions
ProbeCells(axis) ==
    {(2 * P[axis] + TerrainSystem_terrainSize) \div (2 * gridSize) : P \in QueryPositions}

\* how many of the nine cells around (cx, cz) hold the obstacle O
CellsHolding(O, cx, cz) ==
    Cardinality({key \in ((cx - 1)..(cx + 1)) \X ((cz - 1)..(cz + 1)) :
                    O \in SeqToSet(Bucket(collisionGrid, key[1], key[2]))})

Occurrences(s, e) == Cardinality({k \in 1..Len(s) : s[k] = e})

\* C15: getNearbyObjects(cellX, cellZ) is the concatenation of the buckets
\* of the nine cells (cellX-1..cellX+1) x (cellZ-1..cellZ+1), x outer and z
\* inner: an obstacle registered in k of them is listed k times, and nothing
\* else is listed.
C15_NearbyIsNineBuckets ==
    \A cx \in ProbeCells("x"), cz \in ProbeCells("z") :
        LET nearby == getNearbyObjects(collisionGrid, Val(cx), Val(cz))
            B(dx, dz) == Bucket(collisionGrid, cx + dx, cz + dz)
        IN  /\ nearby = B(-1, -1) \o B(-1, 0) \o B(-1, 1)
                         \o B(0, -1) \o B(0, 0) \o B(0, 1)
                         \o B(1, -1) \o B(1, 0) \o B(1, 1)
            /\ \A k \in 1..Len(collisionObjects) :
                  Occurrences(nearby, collisionObjects[k])
                      = CellsHolding(collisionObjects[k], cx, cz)
            /\ SeqToSet(nearby) \subseteq SeqToSet(collisionObjects)

C15_Witness ==
    /\ IsQuery
    /\ terrainSize # Undefined
    /\ LET cx == CellOf(result.position.x, terrainSize).v
           cz == CellOf(result.position.z, terrainSize).v
       IN  /\ \E k \in 1..Len(collisionObjects) :
                  CellsHolding(collisionObjects[k], cx, cz) = 4
           /\ \E k \in 1..Len(collisionObjects) :
                  /\ CellsHolding(collisionObjects[k], cx, cz) = 0
                  /\ \E key \in DOMAIN collisionGrid :
                        collisionObjects[k] \in SeqToSet(collisionGrid[key])

\* the slots the scan of the block around (cx, cz) visits: <<x, z, place in
\* the bucket>>, visited in lexicographic order
ScanSlots(cx, cz) ==
    {t \in ((cx - 1)..(cx + 1)) \X ((cz - 1)..(cz + 1)) \X (1..Len(collisionObjects)) :
        t[3] <= Len(Bucket(collisionGrid, t[1], t[2]))}

NotAfter(t, u) ==
    \/ t[1] < u[1]
    \/ t[1] = u[1] /\ t[2] < u[2]
    \/ t[1] = u[1] /\ t[2] = u[2] /\ t[3] <= u[3]

SlotOverlaps(t, position, radius) ==
    LET O == collisionGrid[<<t[1], t[2]>>][t[3]]
        dx == position.x - O.position.x
        dz == position.z - O.position.z
    IN  radius + O.radius > 0 /\ dx * dx + dz * dz < (radius + O.radius) * (radius + O.radius)

\* C16: a colliding result names one obstacle; that obstacle is at distance
\* less than radius + its radius, it is the first such candidate in scan
\* order (cells by increasing x, then increasing z, insertion order within a
\* bucket), and the scan tested no candidate after it.
C16_FirstInScanOrder ==
    (IsHit /\ terrainSize # Undefined) =>
        LET slots == ScanSlots(CellOf(result.position.x, terrainSize).v,
                               CellOf(result.position.z, terrainSize).v)
            hits == {t \in slots : SlotOverlaps(t, result.position, result.radius)}
        IN  /\ hits # {}
            /\ \A first \in hits :
                  (\A t \in hits : NotAfter(first, t)) =>
                      /\ collisionGrid[<<first[1], first[2]>>][first[3]].object
                             = result.ret.object
                      /\ result.examined
                             = Cardinality({t \in slots : NotAfter(t, first)})
            /\ result.ret.object \in Overlapping(result.position, result.radius)

C16_Witness ==
    /\ IsHit
    /\ terrainSize # Undefined
    /\ result.ret.object = 2
    /\ result.examined = 1
    /\ Overlapping(result.position, result.radius) = {1, 2}
    /\ collisionObjects[1].position # collisionObjects[2].position
    /\ collisionObjects[1] \in SeqToSet(getNearbyObjects(collisionGrid,
                                            CellOf(result.position.x, terrainSize),
                                            CellOf(result.position.z, terrainSize)))

\* the cells of a square grid of side n
CellsOf(n) == (0..(n - 1)) \X (0..(n - 1))

\* C17: every heightData access is inside the grid.  The four corners
\* CollisionSystem.getHeightAt reads (base index at most resolution - 2) and
\* the cell TerrainSystem.getHeightAt reads are cells of the grid for every
\* in-bounds point, the far boundary included, and the dunes of a run assign
\* only cells of the grid, which stays resolution x resolution.
C17_IndicesInsideGrid ==
    /\ result.op = "getHeightAt" /\ heightData # Undefined
          => result.reads \subseteq CellsOf(Cardinality(DOMAIN heightData.v))
    /\ result.op = "TerrainSystem.getHeightAt"
          => result.reads \subseteq CellsOf(terrainResolution)
    /\ \A k \in 1..Len(generated) :
          /\ WritesOf(generated[k]) \subseteq CellsOf(terrainResolution)
          /\ DOMAIN generated[k].heightData = 0..(terrainResolution - 1)
          /\ \A y \in 0..(terrainResolution - 1) :
                DOMAIN generated[k].heightData[y] = 0..(terrainResolution - 1)

C17_Witness ==
    /\ result.op = "getHeightAt"
    /\ heightData # Undefined
    /\ result.x = 500 /\ result.z = 500
    /\ Cardinality(result.reads) = 4
    /\ generated # <<>>
    /\ WritesOf(generated[1]) # {}

\* C18: the tables of every constructed SimplexNoise, whatever its seed
\* (integer, fractional or negative): p holds each of 0..255 exactly once,
\* perm[i] = p[i & 255] and permMod12[i] = perm[i] % 12 for i in 0..511.
C18_PermutationTables ==
    \A k \in 1..Len(noise) :
        /\ {noise[k].p[i] : i \in 0..255} = 0..255
        /\ \A i \in 0..511 :
              /\ noise[k].perm[i] = noise[k].p[i % 256]
              /\ noise[k].permMod12[i] = noise[k].perm[i] % 12

\* a >= b and a = b + n on generated cells, as the comparison of two numbers:
\* false when either is NaN
CellGE(a, b) == a # NaNv /\ b # NaNv /\ a.v >= b.v
CellIsSum(a, b, n) == a # NaNv /\ b # NaNv /\ a.v = b.v + n

\* height * (1 - distance/radius)^2 when distance < radius, else 0
FalloffShare(height, distance, radius) ==
    IF distance < radius * FP
    THEN LET falloff == FP - distance \div radius
         IN  (height * ((falloff * falloff) \div FP)) \div FP
    ELSE 0

RECURSIVE SumOf(_)
SumOf(ns) == IF ns = <<>> THEN 0 ELSE Head(ns) + SumOf(Tail(ns))

\* C19: dune stamping is additive and monotone.  For every dune stamped by
\* addDesertDunes or addDune and every cell of the grid, the value after the
\* stamp is at least the value before, and after all the dunes a cell holds
\* its value before the first plus the sum, over the dunes, of
\* height * (1 - distance/radius)^2 (nothing for a dune at distance >= radius).
C19_DunesAdditive ==
    /\ \A k \in 1..Len(generated) :
          LET g == generated[k]
              n == Len(DunesOf(g))
          IN  \A c \in CellsOf(terrainResolution) :
                  /\ \A i \in 1..n :
                        CellGE(StagesOf(g)[i + 1][c[1]][c[2]], StagesOf(g)[i][c[1]][c[2]])
                  /\ CellIsSum(StagesOf(g)[n + 1][c[1]][c[2]], StagesOf(g)[1][c[1]][c[2]],
                               SumOf([i \in 1..n |->
                                         FalloffShare(DunesOf(g)[i].height,
                                                      DuneDistance(DunesOf(g)[i], c[1], c[2]),
                                                      DunesOf(g)[i].radius)]))
    /\ \A i \in 1..Len(stamps) :
          /\ i > 1 => stamps[i].before = stamps[i - 1].after
          /\ \A c \in CellsOf(stamps[i].resolution) :
                /\ stamps[i].after[c[1]][c[2]] >= stamps[i].before[c[1]][c[2]]
                /\ stamps[i].after[c[1]][c[2]]
                      = stamps[i].before[c[1]][c[2]]
                        + FalloffShare(stamps[i].dune.height,
                                       addDuneDistance(stamps[i].dune, c[1], c[2]),
                                       stamps[i].dune.radius)

\* C20: a stamped dune leaves every cell at distance >= radius from its
\* centre as it was and raises the centre cell by the full dune height, so
\* that the centre ends above any such cell that started at the centre's
\* value.
C20_OffDuneKeptCentreRaised ==
    /\ \A k \in 1..Len(generated) :
          LET g == generated[k]
          IN  \A i \in 1..Len(DunesOf(g)) :
                  LET dune == DunesOf(g)[i]
                      before == StagesOf(g)[i]
                      after == StagesOf(g)[i + 1]
                      off == {c \in CellsOf(terrainResolution) :
                                 DuneDistance(dune, c[1], c[2]) >= dune.radius * FP}
                  IN  /\ \A c \in off : after[c[1]][c[2]] = before[c[1]][c[2]]
                      /\ CellIsSum(after[dune.centerY][dune.centerX],
                                   before[dune.centerY][dune.centerX], dune.height)
                      /\ \A c \in off :
                            before[c[1]][c[2]] = before[dune.centerY][dune.centerX]
                            => (/\ CellGE(after[dune.centerY][dune.centerX], after[c[1]][c[2]])
                                /\ after[dune.centerY][dune.centerX] # after[c[1]][c[2]])
    /\ \A i \in 1..Len(stamps) :
          LET dune == stamps[i].dune
              before == stamps[i].before
              after == stamps[i].after
              off == {c \in CellsOf(stamps[i].resolution) :
                         addDuneDistance(dune, c[1], c[2]) >= dune.radius * FP}
          IN  /\ \A c \in off : after[c[1]][c[2]] = before[c[1]][c[2]]
              /\ after[dune.centerZ][dune.centerX]
                    = before[dune.centerZ][dune.centerX] + dune.height
              /\ \A c \in off :
                    before[c[1]][c[2]] = before[dune.centerZ][dune.centerX]
                    => after[dune.centerZ][dune.centerX] > after[c[1]][c[2]]

----------------------------------------------------------------------------
\* the dunes the last run of generateTerrainData stamped (the stamps after
\* them are direct addDune calls)
GenerationStamps == {stamps[k].dune : k \in 1..Min(Len(stamps), terrainDunes)}

\* the dunes the recorded runs of generateDesertHeightmap stamped
DesertDunes == UNION {{DunesOf(generated[r])[i] : i \in 1..duneCount} :
                         r \in 1..Len(generated)}

\* C21: every dune stamped during heightfield generation, by either
\* generator, has an integer radius between 10 and 30 cells inclusive and an
\* elongation of at least 1, and the dune loop of each generator makes
\* between 20 and 30 passes.
C21_DuneParameters ==
    /\ \A dune \in GenerationStamps \cup DesertDunes :
          /\ dune.radius \in 10..30
          /\ dune.elongation >= FP
    /\ SourceDuneCounts.addDesertDunes \in 20..30
    /\ SourceDuneCounts.generateTerrainData \in 20..30

----------------------------------------------------------------------------
\* the grid generateSimplexNoise returns in a run, under each stream
BaseNoises ==
    TableOn([rnd \in RandomStreams |->
                Filled2(generateSimplexNoise(terrainResolution, terrainResolution, 5, rnd),
                        terrainResolution)],
            RandomStreams)

\* C22: in every generation run, every value of the grid generateSimplexNoise
\* returns lies in [0, 1], so that the shaping pow(value, 1.5) * 0.8 is
\* applied to non-negative values only and every stored height is finite
\* (not NaN).
C22_BaseNoiseInUnitRange ==
    \A r \in 1..Len(generated) :
        \A y \in 0..(terrainResolution - 1), x \in 0..(terrainResolution - 1) :
            /\ BaseNoises[generated[r].random][y][x].v \in 0..FP
            /\ ~IsNaN(generated[r].heightData[y][x])

----------------------------------------------------------------------------
\* the keys of the grid whose bucket holds an entry of obstacle k
KeysHolding(k) ==
    {key \in DOMAIN collisionGrid :
        \E n \in 1..Len(collisionGrid[key]) : collisionGrid[key][n].object = k}

\* C23: the position used for indexing and for distance tests is the one
\* the mesh had when it was added: whatever the mesh's position is now, the
\* stored position of its obstacle, the position in each of its bucket
\* entries and (for an obstacle added after init) the buckets that hold it
\* are those of the position at insertion, and a collision checkCollision
\* reports with it is an overlap with that position.
C23_PositionSnapshot ==
    /\ \A k \in 1..Len(collisionObjects) :
          /\ collisionObjects[k].position = meshes[k].added
          /\ \A key \in KeysHolding(k) : \A n \in 1..Len(collisionGrid[key]) :
                collisionGrid[key][n].object = k
                    => collisionGrid[key][n].position = meshes[k].added
          /\ k \notin addedBeforeInit
                => KeysHolding(k) = GridKeys([position |-> meshes[k].added,
                                              radius |-> collisionObjects[k].radius],
                                             terrainSize)
    /\ IsHit =>
          DistanceLess(result.position.x - meshes[result.ret.object].added.x,
                       result.position.z - meshes[result.ret.object].added.z,
                       result.radius + collisionObjects[result.ret.object].radius)

\* a collision reported with an obstacle whose mesh has since been moved
\* out of the reach of the query
C23_Witness ==
    /\ IsHit
    /\ meshes[result.ret.object].position # meshes[result.ret.object].added
    /\ ~DistanceLess(result.position.x - meshes[result.ret.object].position.x,
                     result.position.z - meshes[result.ret.object].position.z,
                     result.radius + collisionObjects[result.ret.object].radius)

----------------------------------------------------------------------------
\* C24: every member rock of a cluster is seated at the terrain height
\* found at the member's own (x, z) (anchor plus polar offset), not at the
\* height found at the anchor: its base elevation y - scale / 2 is the
\* height of the grid cell the member itself stands over.
C24_MembersSeatedLocally ==
    \A k \in 1..Len(placed) :
        (placed[k].kind = "clusterRock" /\ placed[k].ground # Undefined)
            => placed[k].y - placed[k].scale \div 2 = placed[k].ground.v

----------------------------------------------------------------------------
\* C25: every obstacle the scatter routines place (single rocks, cluster
\* member rocks, plants, the rocks of createRocks) has its x and z inside
\* the square [-size/2, size/2] of its world; a cluster has between 3 and 7
\* members, each at a polar offset of radius in [1, 4) from the anchor.
C25_PlacedInsideWorld ==
    /\ \A k \in 1..Len(placed) :
          /\ 2 * Abs(placed[k].x) <= placed[k].extent * FP
          /\ 2 * Abs(placed[k].z) <= placed[k].extent * FP
          /\ placed[k].kind = "clusterRock"
                => placed[k].distance >= FP /\ placed[k].distance < 4 * FP
    /\ result.op = "addRocksWithPhysics: cluster" /\ result.objects # <<>>
          => Len(result.objects) \in 3..7

----------------------------------------------------------------------------
\* C26: every rock createRocks places is seated on the terrain: its
\* position.y is the height CollisionSystem.getHeightAt(x, z) returned for
\* its own x and z when it was placed, and the obstacle registered for it
\* stores that same position.
C26_RocksSeated ==
    \A k \in 1..Len(placed) :
        placed[k].kind = "createRocks"
            => /\ ~IsNaN(placed[k].collisionHeight)
               /\ placed[k].y = placed[k].collisionHeight
               /\ collisionObjects[placed[k].obstacle].position
                     = [x |-> placed[k].x \div FP, y |-> placed[k].y,
                        z |-> placed[k].z \div FP]

----------------------------------------------------------------------------
\* C27: asset accounting balances: every asset counted by trackAssetLoading
\* is matched by one assetLoaded call, made when its load completes, so
\* that assetsLoaded <= totalAssets, the difference is the number of loads
\* still outstanding, and once no load is outstanding assetsLoaded equals
\* totalAssets and the progress shown is 100%.
C27_AssetAccountingBalances ==
    /\ assetsLoaded <= totalAssets
    /\ totalAssets = assetsLoaded + Len(pending)
    /\ pending = <<>> /\ totalAssets > 0 => percent = Val(100)

-----------------------------------------------------------------------------
\* the history of a loadCharacter call whose three loads all succeeded
FullLoadLog ==
    <<[event |-> "start", file |-> "idle"], [event |-> "ok", file |-> "idle"],
      [event |-> "start", file |-> "walk"], [event |-> "ok", file |-> "walk"],
      [event |-> "start", file |-> "run"], [event |-> "ok", file |-> "run"]>>

\* a load of loadCharacter has failed
SomeLoadFailed == \E k \in DOMAIN loadLog : loadLog[k].event = "error"

\* the load of a file starts only directly after the load of before succeeded
StartsOnlyAfter(file, before) ==
    \A k \in DOMAIN loadLog :
        loadLog[k] = [event |-> "start", file |-> file]
            => k > 1 /\ loadLog[k - 1] = [event |-> "ok", file |-> before]

CallbackOnlyAfterAllLoads ==
    /\ callbacks <= 1
    /\ callbacks = 1 => loadLog = FullLoadLog
    /\ StartsOnlyAfter("walk", "idle")
    /\ StartsOnlyAfter("run", "walk")
    /\ SomeLoadFailed => callbacks = 0
    /\ callbacks = 0 => character = Undefined /\ mixer = Undefined

\* a frame of animate() while character or mixer is unset changes neither
\* the character, the animation state nor the camera
FrameWithoutCharacterIsNoOp ==
    (frames' # frames /\ (character = Undefined \/ mixer = Undefined))
        => UNCHANGED <<character, mixer, actionVars, restarts, camera>>

\* C28: loadCharacter calls its callback at most once, and only after the
\* idle, walk and run loads have succeeded in that order (walk starts only
\* after idle succeeded, run only after walk succeeded); when a load fails
\* the callback is never called, character and mixer of main.js stay unset
\* and a frame's updateCharacter and updateCamera change nothing.
C28_CallbackOnceAfterThreeLoads ==
    []CallbackOnlyAfterAllLoads /\ [][FrameWithoutCharacterIsNoOp]_vars

\* the callback has been called after the three loads and a frame has
\* updated the character it delivered
C28_Witness ==
    /\ callbacks = 1
    /\ loadLog = FullLoadLog
    /\ character # Undefined
    /\ mixer # Undefined /\ mixer.time > 0

-----------------------------------------------------------------------------
\* the character, the mixer and the three animation actions are loaded
AllLoaded ==
    /\ Truthy(character) /\ Truthy(mixer)
    /\ Truthy(idleAction) /\ Truthy(walkAction) /\ Truthy(runAction)

\* the action the key state k calls for
ActionFor(k) ==
    IF k.forward \/ k.backward \/ k.left \/ k.right
    THEN IF k.shift THEN runAction ELSE walkAction
    ELSE idleAction

\* C29: with the character and all three actions loaded, after every
\* updateCharacter call currentAction is the action the key state calls
\* for (run with a movement key and shift, walk with a movement key alone,
\* idle with no movement key), and an action is reset exactly when it
\* differs from the action that was playing, so a repeated key state
\* restarts nothing.
C29_ActionFollowsKeys ==
    [][(frames' # frames /\ AllLoaded)
        => /\ currentAction' = ActionFor(keys)
           /\ restarts' = IF currentAction' = currentAction THEN restarts
                          ELSE [restarts EXCEPT ![currentAction'.clip] = @ + 1]]_vars

\* two frames with shift and forward held have updated the loaded
\* character: the run action plays and has been reset once
C29_Witness ==
    /\ AllLoaded
    /\ mixer.time >= 2
    /\ keys.forward /\ keys.shift
    /\ currentAction = runAction
    /\ restarts = [clip \in {"idle", "walk", "run"} |-> IF clip = "run" THEN 1 ELSE 0]
====
